---- MODULE Spec2Model ----
(***************************************************************************)
(* Retrieval core of the knowledge base (scripts/kb_core): the cluster     *)
(* store (clustering.py), the turn-aware chunker (chunking.py) and the     *)
(* time-decay search (search.py).                                          *)
(*                                                                         *)
(* Conventions of the model                                                *)
(*  - Python None / SQL NULL for an integer id is 0 (ids are serial, >= 1; *)
(*    the code itself tests `if call_id:`).                                *)
(*  - An embedding is a unit vector in the plane, named by its angle in    *)
(*    units of 30 degrees; cosine distances are exact to 4 decimals and    *)
(*    kept as integers scaled by 10000.                                    *)
(*  - Python lists used only for membership (chunk_ids, exclude_ids) are   *)
(*    sets.                                                                *)
(***************************************************************************)
EXTENDS Integers, Sequences, FiniteSets, TLC

\* ------------------------------------------------------------------ bounds
MaxChunks == 2      \* rows of call_chunks

None == 0
NoEmbedding == -1   \* SQL NULL in call_chunks.embedding
Truthy(x) == x # None

Calls == {1, 2}                 \* ids of the rows of calls
BatchSizes == {1, 2}            \* chunks handed to one insert_chunks call
EmbSet == {0, 1}                \* embeddings at 0 and 30 degrees
Thresholds == {1000, 3000}      \* 0.1 and the default 0.3

VARIABLES
    call_chunks,     \* table call_chunks: sequence of rows, id = position (serial)
    chunk_clusters,  \* table chunk_clusters: set of rows (chunk_id, cluster_id)
                     \*   + the history field scope: the call_id argument of the
                     \*   store_clusters run that wrote the row (None: corpus-wide)
    ret,             \* the last call: its name, arguments and return value
    tx,              \* the connection of a store_clusters call in progress
    seen,            \* the table as the last single SELECT on chunk_clusters saw
                     \*   it; active: the run that was between its DELETE and its
                     \*   commit at that moment is still in progress
    text,            \* the text handed to the chunker
    view_rows        \* the rows of the view chunks_with_context

vars == <<call_chunks, chunk_clusters, ret, tx, seen, text, view_rows>>

\* the parts of the state an operation of another component leaves alone
NoTx == [pc |-> "idle", call_id |-> None, distance_threshold |-> 0,
         computed |-> <<>>, todo |-> <<>>, pending |-> {}, before |-> {}, after |-> {}]
NoRead == [active |-> FALSE, table |-> {}]
StoreIdle == call_chunks = <<>> /\ chunk_clusters = {} /\ tx = NoTx /\ seen = NoRead

\* ------------------------------------------------------------ generic helpers
Min(S) == CHOOSE x \in S : \A y \in S : x <= y
Range(s) == {s[i] : i \in DOMAIN s}
Abs(x) == IF x < 0 THEN -x ELSE x

\* calls.call_date of the calls present (days since an epoch)
CallDate(c) == 10 * c

\* pgvector's <=> on unit vectors: 1 - cos(angle), times 10000
CosTable == <<0, 1340, 5000, 10000, 15000, 18660, 20000>>
CosDist(a, b) == CosTable[Abs(a - b) + 1]

\* ------------------------------------------------------------ insert_chunks
\* crud/chunks.py: every chunk of the list is embedded and inserted with
\* chunk_idx = its position in the list (enumerate), in one transaction.
insert_chunks(call_id, embs) ==
    /\ call_chunks' = call_chunks \o
           [i \in 1..Len(embs) |->
               [id |-> Len(call_chunks) + i, call_id |-> call_id,
                chunk_idx |-> i - 1, embedding |-> embs[i]]]
    /\ ret' = [op |-> "insert_chunks", call_id |-> call_id, count |-> Len(embs)]
    /\ UNCHANGED chunk_clusters

\* ------------------------------------------------------------ _fetch_embeddings
InScope(call_id) ==
    {i \in 1..Len(call_chunks) :
        (Truthy(call_id) => call_chunks[i].call_id = call_id)}

\* ORDER BY c.chunk_idx  /  ORDER BY c.call_id, c.chunk_idx
FetchOrdered(call_id, a, b) ==
    IF Truthy(call_id)
    THEN a.chunk_idx <= b.chunk_idx
    ELSE \/ a.call_id < b.call_id
         \/ a.call_id = b.call_id /\ a.chunk_idx <= b.chunk_idx

\* The possible results: rows that tie on the ORDER BY key come in any order.
RECURSIVE FetchOrders(_, _)
FetchOrders(ids, call_id) ==
    IF ids = {} THEN {<<>>}
    ELSE UNION {{<<call_chunks[i]>> \o s : s \in FetchOrders(ids \ {i}, call_id)} :
                  i \in {m \in ids : \A o \in ids :
                           FetchOrdered(call_id, call_chunks[m], call_chunks[o])}}

\* faulty variant: the rows without an embedding are fetched too
fetch_embeddings_All(call_id) == FetchOrders(InScope(call_id), call_id)

fetch_embeddings(call_id) ==
    FetchOrders({i \in InScope(call_id) : call_chunks[i].embedding # NoEmbedding},
                call_id)

\* ------------------------------------------------------------ compute_clusters
RECURSIVE SumPairs(_, _)
SumPairs(P, rows) ==
    IF P = {} THEN 0
    ELSE LET p == CHOOSE x \in P : TRUE
         IN CosDist(rows[p[1]].embedding, rows[p[2]].embedding)
              + SumPairs(P \ {p}, rows)

\* average linkage of two clusters of row positions, as a fraction num/den
LinkNum(A, B, rows) == SumPairs(A \X B, rows)
LinkDen(A, B) == Cardinality(A) * Cardinality(B)

\* AgglomerativeClustering(n_clusters=None, distance_threshold, metric="cosine",
\* linkage="average"): merge the closest pair while its linkage distance is
\* below the threshold (clusters at or above it are not merged).
Links(part, rows) ==
    {[a |-> pr[1], b |-> pr[2],
      num |-> LinkNum(pr[1], pr[2], rows), den |-> LinkDen(pr[1], pr[2])] :
        pr \in {x \in part \X part : Min(x[1]) < Min(x[2])}}

\* the pairs at minimum linkage distance
Nearest(links) == {p \in links : \A q \in links : p.num * q.den <= q.num * p.den}

\* of several pairs at the same distance, the first in row order
FirstPair(nearest) ==
    CHOOSE p \in nearest : \A q \in nearest :
        \/ Min(p.a) < Min(q.a)
        \/ Min(p.a) = Min(q.a) /\ Min(p.b) <= Min(q.b)

\* faulty variant: clusters at the threshold are merged too
BelowThreshold_OrAt(best, distance_threshold) ==
    best.num <= distance_threshold * best.den

\* the merges kept by the cut: those of linkage distance below the threshold
BelowThreshold(best, distance_threshold) ==
    best.num < distance_threshold * best.den

RECURSIVE Agglomerate(_, _, _)
Merge(part, rows, distance_threshold, best) ==
    IF BelowThreshold(best, distance_threshold)
    THEN Agglomerate((part \ {best.a, best.b}) \cup {best.a \cup best.b},
                     rows, distance_threshold)
    ELSE part

Agglomerate(part, rows, distance_threshold) ==
    IF Cardinality(part) < 2 THEN part
    ELSE Merge(part, rows, distance_threshold, FirstPair(Nearest(Links(part, rows))))

\* labels 0..k-1; the members of a cluster in row order
RECURSIVE SortedSeq(_)
SortedSeq(S) == IF S = {} THEN <<>> ELSE <<Min(S)>> \o SortedSeq(S \ {Min(S)})

Labelling(part, rows) ==
    [i \in DOMAIN rows |->
        LET A == CHOOSE X \in part : i \in X
        IN Cardinality({B \in part : Min(B) < Min(A)})]

fit_predict(rows, distance_threshold) ==
    Labelling(Agglomerate({{i} : i \in DOMAIN rows}, rows, distance_threshold), rows)

\* clusters[label].append(chunk_id), in the order of the rows
GroupByLabel(rows, labels) ==
    [label \in Range(labels) |->
        LET pos == SortedSeq({i \in DOMAIN rows : labels[i] = label})
        IN [k \in DOMAIN pos |-> rows[pos[k]].id]]

compute_clusters(rows, distance_threshold) ==
    IF Len(rows) < 2
    THEN IF Len(rows) > 0
         THEN [label \in {0} |-> <<rows[1].id>>]
         ELSE [label \in {} |-> <<>>]
    ELSE GroupByLabel(rows, fit_predict(rows, distance_threshold))

\* ------------------------------------------------------------ store_clusters
\* DELETE FROM chunk_clusters [WHERE chunk_id IN (SELECT id FROM call_chunks
\*                                               WHERE call_id = %s)]
\* faulty variants of DeleteScope: no DELETE at all (merge with the old rows); a DELETE
\* without its WHERE; a DELETE of the rows the same scope wrote only
DeleteScope_Nothing(table, call_id) == table
DeleteScope_All(table, call_id) == {}
DeleteScope_ByWriter(table, call_id) == {r \in table : r.scope # call_id}

DeleteScope(table, call_id) ==
    IF Truthy(call_id)
    THEN {r \in table : r.chunk_id \notin InScope(call_id)}
    ELSE {}

\* total += 1, once per INSERT
RECURSIVE Total(_, _)
Total(clusters, labels) ==
    IF labels = {} THEN 0
    ELSE LET label == CHOOSE x \in labels : TRUE
         IN Len(clusters[label]) + Total(clusters, labels \ {label})

\* INSERT INTO chunk_clusters (chunk_id, cluster_id) VALUES (%s, %s), per member
InsertAll(table, clusters, call_id) ==
    table \cup UNION {{[chunk_id |-> clusters[label][k], cluster_id |-> label,
                         scope |-> call_id] :
                           k \in DOMAIN clusters[label]} : label \in DOMAIN clusters}

store_clusters(call_id, distance_threshold) ==
    /\ \E rows \in fetch_embeddings(call_id) :
         \E clusters \in {compute_clusters(rows, distance_threshold)} :
            /\ chunk_clusters' =
                  InsertAll(DeleteScope(chunk_clusters, call_id), clusters, call_id)
            /\ ret' = [op |-> "store_clusters", call_id |-> call_id,
                       distance_threshold |-> distance_threshold,
                       computed |-> clusters,
                       clusters |-> Cardinality(DOMAIN clusters),
                       chunks_clustered |-> Total(clusters, DOMAIN clusters)]
    /\ UNCHANGED call_chunks

\* ------------------------------------------------------------ expand_by_cluster
\* exclude_ids: [given |-> FALSE] is the omitted argument (None)
Omitted == [given |-> FALSE, ids |-> {}]
Given(S) == [given |-> TRUE, ids |-> S]

\* set(exclude_ids or chunk_ids)
ExcludeSet(chunk_ids, exclude_ids) ==
    IF exclude_ids.given /\ exclude_ids.ids # {} THEN exclude_ids.ids ELSE chunk_ids

\* SELECT DISTINCT cluster_id FROM chunk_clusters WHERE chunk_id IN (chunk_ids)
SeedClusterIds(table, chunk_ids) ==
    {r.cluster_id : r \in {x \in table : x.chunk_id \in chunk_ids}}

\* SELECT ... FROM chunk_clusters cc JOIN call_chunks c ON cc.chunk_id = c.id ...
\* WHERE cc.cluster_id IN (cluster_ids) AND c.id NOT IN (exclude):
\* one result row per matching row of chunk_clusters
\* faulty variant: the second query without its cluster_id filter
ExpandRows_AnyCluster(table, cluster_ids, exclude) ==
    {r \in table : r.chunk_id \in 1..Len(call_chunks) /\ r.chunk_id \notin exclude}

ExpandRows(table, cluster_ids, exclude) ==
    {r \in table : /\ r.chunk_id \in 1..Len(call_chunks)
                   /\ r.cluster_id \in cluster_ids
                   /\ r.chunk_id \notin exclude}

\* ORDER BY ca.call_date DESC, c.chunk_idx
ExpandOrdered(a, b) ==
    LET ca == call_chunks[a.chunk_id]
        cb == call_chunks[b.chunk_id]
    IN \/ CallDate(ca.call_id) > CallDate(cb.call_id)
       \/ CallDate(ca.call_id) = CallDate(cb.call_id) /\ ca.chunk_idx <= cb.chunk_idx

\* the result rows (cluster_id, id, call_id, ...; scope is the history field)
RECURSIVE ExpandOrders(_)
ExpandOrders(hit) ==
    IF hit = {} THEN {<<>>}
    ELSE UNION {{<<[cluster_id |-> r.cluster_id, id |-> r.chunk_id,
                    call_id |-> call_chunks[r.chunk_id].call_id, scope |-> r.scope]>>
                   \o s : s \in ExpandOrders(hit \ {r})} :
                  r \in {m \in hit : \A o \in hit : ExpandOrdered(m, o)}}

ExpandResults(table, chunk_ids, exclude_ids) ==
    IF chunk_ids = {} THEN {<<>>}
    ELSE LET cluster_ids == SeedClusterIds(table, chunk_ids)
         IN IF cluster_ids = {} THEN {<<>>}
            ELSE LET hit == ExpandRows(table, cluster_ids,
                                       ExcludeSet(chunk_ids, exclude_ids))
                 IN ExpandOrders(hit)

expand_by_cluster(chunk_ids, exclude_ids) ==
    /\ \E rows \in ExpandResults(chunk_clusters, chunk_ids, exclude_ids) :
          ret' = [op |-> "expand_by_cluster", chunk_ids |-> chunk_ids,
                  exclude_ids |-> exclude_ids, rows |-> rows]
    /\ UNCHANGED <<call_chunks, chunk_clusters>>

Init ==
    /\ StoreIdle
    /\ ret = [op |-> "none"]
    /\ text = <<>>
    /\ view_rows = {}

DoInsertChunks ==
    /\ \E call_id \in Calls, n \in BatchSizes :
          \E embs \in [1..n -> EmbSet] :
              /\ Len(call_chunks) + Len(embs) <= MaxChunks
              /\ insert_chunks(call_id, embs)
    /\ UNCHANGED <<tx, seen, text, view_rows>>

DoStoreClusters ==
    /\ \E call_id \in Calls \cup {None}, t \in Thresholds : store_clusters(call_id, t)
    /\ UNCHANGED <<tx, seen, text, view_rows>>

\* ids a caller may pass: chunks of the table and one id that is not in it
SeedArgs == {{}, {1}, {1, 2}, {Len(call_chunks) + 1}}
ExcludeArgs(chunk_ids) ==
    IF chunk_ids \subseteq {1, 2} /\ chunk_ids # {}
    THEN {Omitted, Given({}), Given({2}), Given(chunk_ids \cup {2})}
    ELSE {Omitted}

DoExpandByCluster ==
    /\ \E chunk_ids \in SeedArgs :
          \E exclude_ids \in ExcludeArgs(chunk_ids) :
              expand_by_cluster(chunk_ids, exclude_ids)
    /\ UNCHANGED <<tx, seen, text, view_rows>>

Next ==
    \/ DoInsertChunks
    \/ DoStoreClusters
    \/ DoExpandByCluster

Spec == Init /\ [][Next]_vars

\* ======================================================================
\* Properties of the cluster store, checked under Spec
\* ======================================================================
IsExpand == ret.op = "expand_by_cluster"
IsStore == ret.op = "store_clusters"
RowIds(rows) == {rows[k].id : k \in DOMAIN rows}
Proj(T) == {<<r.chunk_id, r.cluster_id>> : r \in T}
OfParent(T, P) == {r \in T : call_chunks[r.chunk_id].call_id = P}
\* the (chunk_id, cluster_id) pairs of a computed clustering
Assignments(clusters) ==
    UNION {{<<clusters[label][k], label>> : k \in DOMAIN clusters[label]} :
             label \in DOMAIN clusters}

\* C1 (as claimed): whatever exclude_ids is, no row returned by
\* expand_by_cluster(chunk_ids, exclude_ids) has an id that is one of chunk_ids.
C1_NoSeedReturned ==
    IsExpand => RowIds(ret.rows) \cap ret.chunk_ids = {}

C3_Replaces ==
    [][ret'.op = "store_clusters" =>
         LET P == ret'.call_id
             new == Assignments(ret'.computed)
         IN IF Truthy(P)
            THEN /\ Proj(OfParent(chunk_clusters', P)) = new
                 /\ \A r \in OfParent(chunk_clusters', P) : r.scope = P
                 /\ chunk_clusters' \ OfParent(chunk_clusters', P)
                      = chunk_clusters \ OfParent(chunk_clusters, P)
            ELSE /\ Proj(chunk_clusters') = new
                 /\ \A r \in chunk_clusters' : r.scope = None]_vars

\* a per-parent run has replaced its parent's rows beside another parent's rows
C3_Witness ==
    /\ IsStore
    /\ Truthy(ret.call_id)
    /\ OfParent(chunk_clusters, ret.call_id) # {}
    /\ chunk_clusters \ OfParent(chunk_clusters, ret.call_id) # {}

\* C4: every chunk has at most one persisted assignment per scope.
C4_OnePerScope ==
    \A c \in 1..Len(call_chunks) : \A s \in Calls \cup {None} :
        Cardinality({r \in chunk_clusters : r.chunk_id = c /\ r.scope = s}) <= 1

\* rows of a corpus-wide run and of a per-parent run are both in the table
C4_Witness ==
    /\ IsStore
    /\ \E r, q \in chunk_clusters : r.scope = None /\ Truthy(q.scope)

Autocommit_On == TRUE
Autocommit == FALSE

\* the committed table after a statement of the open transaction
Committed(table, pending) == IF Autocommit THEN pending ELSE table

\* for label, chunk_ids in clusters.items(): for chunk_id in chunk_ids: INSERT
RECURSIVE InsertOrder(_, _)
InsertOrder(clusters, labels) ==
    IF labels = {} THEN <<>>
    ELSE [k \in DOMAIN clusters[Min(labels)] |->
              [chunk_id |-> clusters[Min(labels)][k], cluster_id |-> Min(labels)]]
           \o InsertOrder(clusters, labels \ {Min(labels)})

\* line 155: clusters = compute_clusters(call_id, distance_threshold)
TxCompute(call_id, distance_threshold) ==
    /\ tx.pc = "idle"
    /\ \E rows \in fetch_embeddings(call_id) :
         tx' = [NoTx EXCEPT !.pc = "delete", !.call_id = call_id,
                            !.distance_threshold = distance_threshold,
                            !.computed = compute_clusters(rows, distance_threshold)]
    /\ UNCHANGED <<call_chunks, chunk_clusters, ret, seen, text, view_rows>>

\* lines 160-166: the DELETE, first statement of the transaction
TxDelete ==
    /\ tx.pc = "delete"
    /\ \E kept \in {DeleteScope(chunk_clusters, tx.call_id)} :
         /\ tx' = [tx EXCEPT !.pc = "insert", !.pending = kept,
                             !.todo = InsertOrder(tx.computed, DOMAIN tx.computed),
                             !.before = chunk_clusters,
                             !.after = InsertAll(kept, tx.computed, tx.call_id)]
         /\ chunk_clusters' = Committed(chunk_clusters, kept)
    /\ UNCHANGED <<call_chunks, ret, seen, text, view_rows>>

\* lines 170-176: one INSERT
TxInsert ==
    /\ tx.pc = "insert"
    /\ tx.todo # <<>>
    /\ \E row \in {[chunk_id |-> Head(tx.todo).chunk_id,
                     cluster_id |-> Head(tx.todo).cluster_id, scope |-> tx.call_id]} :
         /\ tx' = [tx EXCEPT !.pending = @ \cup {row}, !.todo = Tail(@)]
         /\ chunk_clusters' = Committed(chunk_clusters, tx.pending \cup {row})
    /\ UNCHANGED <<call_chunks, ret, seen, text, view_rows>>

\* lines 177-179: conn.commit() and the return
TxCommit ==
    /\ tx.pc = "insert"
    /\ tx.todo = <<>>
    /\ chunk_clusters' = tx.pending
    /\ ret' = [op |-> "store_clusters", call_id |-> tx.call_id,
               clusters |-> Cardinality(DOMAIN tx.computed),
               chunks_clustered |-> Cardinality(Assignments(tx.computed))]
    /\ tx' = NoTx
    /\ seen' = [seen EXCEPT !.active = FALSE]
    /\ UNCHANGED <<call_chunks, text, view_rows>>

\* a statement raises (the connection drops, a chunk was deleted meanwhile):
\* the exception leaves the `with` block, which rolls the transaction back
TxFail ==
    /\ tx.pc = "insert"
    /\ ret' = [op |-> "store_clusters_raised", before |-> tx.before]
    /\ tx' = NoTx
    /\ seen' = [seen EXCEPT !.active = FALSE]
    /\ UNCHANGED <<call_chunks, chunk_clusters, text, view_rows>>

\* one SELECT on chunk_clusters issued by get_cluster_details (lines 201-210,
\* 215-225) or expand_by_cluster (lines 259-262, 271-282) on its own connection
TxRead ==
    /\ seen' = [active |-> tx.pc = "insert", table |-> chunk_clusters]
    /\ UNCHANGED <<call_chunks, chunk_clusters, ret, tx, text, view_rows>>

TxInsertChunks ==
    /\ tx.pc = "idle"
    /\ \E call_id \in Calls, n \in BatchSizes :
          \E embs \in [1..n -> EmbSet] :
              /\ Len(call_chunks) + Len(embs) <= MaxChunks
              /\ insert_chunks(call_id, embs)
    /\ UNCHANGED <<tx, seen, text, view_rows>>

TxStoreClusters ==
    \E call_id \in Calls \cup {None}, t \in Thresholds : TxCompute(call_id, t)

TxNext ==
    \/ TxInsertChunks
    \/ TxStoreClusters
    \/ TxDelete
    \/ TxInsert
    \/ TxCommit
    \/ TxFail
    \/ TxRead

SpecTxn == Init /\ [][TxNext]_vars

\* C6: a single read made while store_clusters is between its DELETE and its
\* commit sees the complete prior assignments or the complete new ones, never
\* the scope emptied or partly re-inserted; and when store_clusters raises
\* part-way the table holds the prior assignments.
C6_Atomic ==
    /\ seen.active => seen.table \in {tx.before, tx.after}
    /\ ret.op = "store_clusters_raised" => chunk_clusters = ret.before

\* a read between the DELETE and the commit of a run that changes the table
C6_Witness ==
    /\ seen.active
    /\ tx.before # {}
    /\ tx.before # tx.after
    /\ tx.pending \notin {tx.before, tx.after}

\* ======================================================================
\* chunking.py: the turn-aware chunker (SpecChunk)
\* ======================================================================
\* A text is a sequence of characters. The characters of the model: a lowercase
\* letter, uppercase letters, the sentence end, the two whitespace characters
\* and the brackets of a speaker tag.
MaxPieces == 5      \* pieces a text is put together from
NL == "\n"
Pieces == {<<"a">>, <<"a", "a", "a">>, <<"B">>, <<".">>, <<" ">>, <<NL>>,
           <<"[", "S", "]">>}
SizePairs == {<<2, 3>>, <<3, 4>>, <<3, 3>>}     \* (min_chunk_size, max_chunk_size)

RECURSIVE TextsOf(_)
TextsOf(n) ==
    IF n = 0 THEN {<<>>}
    ELSE {<<>>} \cup {p \o t : p \in Pieces, t \in TextsOf(n - 1)}

IsSpace(c) == c \in {" ", NL}           \* \s, and what str.strip() removes
IsUpper(c) == c \in {"B", "S"}          \* [A-Z]
IsTerm(c) == c \in {".", "!", "?"}      \* [.!?]
NoSpeaker == <<>>                       \* None

\* str.strip()
RECURSIVE LStrip(_)
LStrip(s) == IF s # <<>> /\ IsSpace(Head(s)) THEN LStrip(Tail(s)) ELSE s
RECURSIVE RStrip(_)
RStrip(s) ==
    IF s # <<>> /\ IsSpace(s[Len(s)]) THEN RStrip(SubSeq(s, 1, Len(s) - 1)) ELSE s
Strip(s) == RStrip(LStrip(s))

\* " ".join(list)
RECURSIVE Join(_)
Join(list) ==
    IF list = <<>> THEN <<>>
    ELSE IF Len(list) = 1 THEN list[1]
    ELSE list[1] \o <<" ">> \o Join(Tail(list))

\* text.split("\n\n")
RECURSIVE SplitTurns(_)
SplitTurns(s) ==
    LET at == {i \in 1..Len(s) - 1 : s[i] = NL /\ s[i + 1] = NL}
    IN IF at = {} THEN <<s>>
       ELSE <<SubSeq(s, 1, Min(at) - 1)>> \o SplitTurns(SubSeq(s, Min(at) + 2, Len(s)))

\* part.split("\n")
RECURSIVE SplitLines(_)
SplitLines(s) ==
    LET at == {i \in 1..Len(s) : s[i] = NL}
    IN IF at = {} THEN <<s>>
       ELSE <<SubSeq(s, 1, Min(at) - 1)>> \o SplitLines(SubSeq(s, Min(at) + 1, Len(s)))

\* [x.strip() for x in list if x.strip()]
RECURSIVE StripAll(_)
StripAll(list) ==
    IF list = <<>> THEN <<>>
    ELSE IF Strip(Head(list)) = <<>> THEN StripAll(Tail(list))
    ELSE <<Strip(Head(list))>> \o StripAll(Tail(list))

\* re.match(r'^\[([^\]]+)\]\s*(.*)$', turn, re.DOTALL)
parse_turn(turn) ==
    LET close == {j \in 1..Len(turn) : turn[j] = "]"}
    IN IF turn # <<>> /\ turn[1] = "[" /\ close # {} /\ Min(close) >= 3
       THEN [speaker |-> SubSeq(turn, 2, Min(close) - 1),
             text |-> Strip(SubSeq(turn, Min(close) + 1, Len(turn)))]
       ELSE [speaker |-> NoSpeaker, text |-> turn]

\* One match of (?<=[.!?])\s+(?=[A-Z\n]) starting at i: where it ends (the
\* index after it), or 0. \s+ is greedy: the whole whitespace run if an
\* uppercase letter follows it, else up to the last newline of the run.
MatchEnd(s, i) ==
    IF ~(i >= 2 /\ i <= Len(s) /\ IsTerm(s[i - 1]) /\ IsSpace(s[i])) THEN 0
    ELSE LET stop == Min({j \in i..Len(s) + 1 : j = Len(s) + 1 \/ ~IsSpace(s[j])})
             nls == {e \in i + 1..stop - 1 : s[e] = NL}
         IN IF stop <= Len(s) /\ IsUpper(s[stop]) THEN stop
            ELSE IF nls # {} THEN CHOOSE e \in nls : \A o \in nls : o <= e
            ELSE 0

\* re.split(pattern, text)
RECURSIVE ReSplit(_)
ReSplit(s) ==
    LET at == {i \in 1..Len(s) : MatchEnd(s, i) # 0}
    IN IF at = {} THEN <<s>>
       ELSE <<SubSeq(s, 1, Min(at) - 1)>>
              \o ReSplit(SubSeq(s, MatchEnd(s, Min(at)), Len(s)))

RECURSIVE LinesOfParts(_)
LinesOfParts(parts) ==
    IF parts = <<>> THEN <<>>
    ELSE StripAll(SplitLines(Head(parts))) \o LinesOfParts(Tail(parts))

split_sentences(body) == LinesOfParts(ReSplit(body))

\* segments: the flat list of (speaker, sentence) pairs
RECURSIVE Segments(_)
Segments(turns) ==
    IF turns = <<>> THEN <<>>
    ELSE LET parsed == parse_turn(Head(turns))
             sentences == split_sentences(parsed.text)
         IN [k \in DOMAIN sentences |->
                [speaker |-> parsed.speaker, sentence |-> sentences[k]]]
              \o Segments(Tail(turns))

\* line 152: the flush test
ShouldFlush_NoMin(current_size, sentence_size, min_chunk_size, max_chunk_size) ==
    current_size + sentence_size > max_chunk_size

ShouldFlush_MinOnly(current_size, sentence_size, min_chunk_size, max_chunk_size) ==
    current_size >= min_chunk_size

ShouldFlush(current_size, sentence_size, min_chunk_size, max_chunk_size) ==
    /\ current_size + sentence_size > max_chunk_size
    /\ current_size >= min_chunk_size

\* lines 148-164, one round of the loop. acc: the chunks flushed so far (each
\* the list of its segments), the current sentences and the current size.
Accumulate_DropOnFlush(acc, seg, min_chunk_size, max_chunk_size) ==
    IF ShouldFlush(acc.size, Len(seg.sentence), min_chunk_size, max_chunk_size)
    THEN [groups |-> Append(acc.groups, acc.current), current |-> <<>>, size |-> 0]
    ELSE [acc EXCEPT !.current = Append(@, seg), !.size = @ + Len(seg.sentence) + 1]

Accumulate(acc, seg, min_chunk_size, max_chunk_size) ==
    IF ShouldFlush(acc.size, Len(seg.sentence), min_chunk_size, max_chunk_size)
    THEN [groups |-> Append(acc.groups, acc.current),
          current |-> <<seg>>, size |-> Len(seg.sentence) + 1]
    ELSE [acc EXCEPT !.current = Append(@, seg), !.size = @ + Len(seg.sentence) + 1]

RECURSIVE Loop(_, _, _, _)
Loop(acc, segments, min_chunk_size, max_chunk_size) ==
    IF segments = <<>>
    THEN IF acc.current # <<>> THEN Append(acc.groups, acc.current) ELSE acc.groups
    ELSE Loop(Accumulate(acc, Head(segments), min_chunk_size, max_chunk_size),
              Tail(segments), min_chunk_size, max_chunk_size)

\* max(set(current_speakers), key=current_speakers.count): a speaker with the
\* highest count; among several the iteration order of the set decides
PrimaryChoices(group) ==
    LET current_speakers == SelectSeq(group, LAMBDA g : g.speaker # NoSpeaker)
        Count(sp) == Cardinality({k \in DOMAIN current_speakers :
                                     current_speakers[k].speaker = sp})
        names == {current_speakers[k].speaker : k \in DOMAIN current_speakers}
    IN IF names = {} THEN {NoSpeaker}
       ELSE {sp \in names : \A o \in names : Count(o) <= Count(sp)}

Sentences(group) == [k \in DOMAIN group |-> group[k].sentence]

\* lines 153-156 and 168-170: one chunk of each group of segments, with every
\* primary speaker the group allows
ChunksOf(groups) ==
    LET names == UNION {PrimaryChoices(groups[i]) : i \in DOMAIN groups}
    IN {[i \in DOMAIN groups |->
            [speaker |-> primary[i], text |-> Join(Sentences(groups[i]))]] :
          primary \in {f \in [DOMAIN groups -> names] :
                         \A i \in DOMAIN groups : f[i] \in PrimaryChoices(groups[i])}}

\* the possible return values of chunk_transcript(text, min, max)
ChunkResults(t, min_chunk_size, max_chunk_size) ==
    LET turns == StripAll(SplitTurns(t))
    IN IF turns = <<>>
       THEN IF Strip(t) # <<>> THEN {<<[speaker |-> NoSpeaker, text |-> Strip(t)]>>}
            ELSE {<<>>}
       ELSE UNION {ChunksOf(groups) :
               groups \in {Loop([groups |-> <<>>, current |-> <<>>, size |-> 0],
                                Segments(turns), min_chunk_size, max_chunk_size)}}

chunk_transcript(min_chunk_size, max_chunk_size) ==
    /\ \E chunks \in ChunkResults(text, min_chunk_size, max_chunk_size) :
         ret' = [op |-> "chunk_transcript", min_chunk_size |-> min_chunk_size,
                 max_chunk_size |-> max_chunk_size, chunks |-> chunks]
    /\ UNCHANGED <<call_chunks, chunk_clusters, tx, seen, text, view_rows>>

ChunkInit ==
    /\ StoreIdle
    /\ ret = [op |-> "none"]
    /\ text \in TextsOf(MaxPieces)
    /\ view_rows = {}

DoChunkTranscript == \E sizes \in SizePairs : chunk_transcript(sizes[1], sizes[2])

ChunkNext == DoChunkTranscript

SpecChunk == ChunkInit /\ [][ChunkNext]_vars

\* ----------------------------------------------------------------------
\* Properties of the chunker
\* ----------------------------------------------------------------------
IsChunk == ret.op = "chunk_transcript"

\* the sentences of the input turns, speaker tags stripped, in original order
InputSentences(t) == Sentences(Segments(StripAll(SplitTurns(t))))

\* the content of the input turns, speaker tags stripped
RECURSIVE TurnBodies(_)
TurnBodies(turns) ==
    IF turns = <<>> THEN <<>>
    ELSE <<parse_turn(Head(turns)).text>> \o TurnBodies(Tail(turns))

\* a text with normalized whitespace: the sequence of its words
RECURSIVE Words(_)
Words(s) ==
    LET t == LStrip(s)
        stop == Min({j \in 1..Len(t) + 1 : j = Len(t) + 1 \/ IsSpace(t[j])})
    IN IF t = <<>> THEN <<>>
       ELSE <<SubSeq(t, 1, stop - 1)>> \o Words(SubSeq(t, stop, Len(t)))

ChunkTexts(chunks) == [i \in DOMAIN chunks |-> chunks[i].text]

\* the chunks are, in order, the joins of consecutive runs of the sentences,
\* and the runs use every sentence once
RECURSIVE Covers(_, _)
Covers(texts, sentences) ==
    IF texts = <<>> THEN sentences = <<>>
    ELSE \E k \in 1..Len(sentences) :
           /\ Join(SubSeq(sentences, 1, k)) = Head(texts)
           /\ Covers(Tail(texts), SubSeq(sentences, k + 1, Len(sentences)))

\* C7: chunk_transcript is lossless. The sentences in the returned chunks,
\* read in chunk order, are exactly the sentences of the input turns in their
\* order: each chunk is a run of whole sentences, no sentence is dropped,
\* duplicated or split, and the chunk texts joined reproduce the content of
\* the turns up to whitespace.
C7_Lossless ==
    IsChunk =>
      /\ Covers(ChunkTexts(ret.chunks), InputSentences(text))
      /\ Words(Join(ChunkTexts(ret.chunks)))
           = Words(Join(TurnBodies(StripAll(SplitTurns(text)))))

\* C7 witness: a text of more sentences than chunks came back in several chunks
C7_Witness ==
    /\ IsChunk
    /\ Len(ret.chunks) >= 2
    /\ Len(InputSentences(text)) > Len(ret.chunks)

Longest(sentences) ==
    IF sentences = <<>> THEN 0
    ELSE CHOOSE n \in {Len(sentences[k]) : k \in DOMAIN sentences} :
           \A k \in DOMAIN sentences : Len(sentences[k]) <= n

Max(a, b) == IF a >= b THEN a ELSE b

\* C8 as stated: unless a single sentence alone is longer than max_chunk_size,
\* every chunk but the last has min_chunk_size <= len(text) <= max_chunk_size.
C8_WithinBounds ==
    (IsChunk /\ Longest(InputSentences(text)) <= ret.max_chunk_size) =>
      \A i \in 1..Len(ret.chunks) - 1 :
        /\ ret.min_chunk_size <= Len(ret.chunks[i].text)
        /\ Len(ret.chunks[i].text) <= ret.max_chunk_size

\* C8 amended: every chunk but the last has
\* min_chunk_size - 1 <= len(text) <= max(max_chunk_size, min_chunk_size - 1 + L),
\* L the length of the longest sentence of the input.
C8_WithinSlack ==
    IsChunk =>
      \A i \in 1..Len(ret.chunks) - 1 :
        /\ ret.min_chunk_size - 1 <= Len(ret.chunks[i].text)
        /\ Len(ret.chunks[i].text)
             <= Max(ret.max_chunk_size,
                    ret.min_chunk_size - 1 + Longest(InputSentences(text)))

\* C8 witness: no sentence is longer than max_chunk_size, and a chunk that is
\* not the last is longer than max_chunk_size, exactly at the amended bound
C8_Witness ==
    /\ IsChunk
    /\ Longest(InputSentences(text)) <= ret.max_chunk_size
    /\ \E i \in 1..Len(ret.chunks) - 1 :
         /\ Len(ret.chunks[i].text) > ret.max_chunk_size
         /\ Len(ret.chunks[i].text)
              = ret.min_chunk_size - 1 + Longest(InputSentences(text))

\* ======================================================================
\* search.py: semantic search with time decay (SpecSearch)
\* ======================================================================
\* view_rows is the view chunks_with_context as one query sees it: each row
\* has its names, its age in days (CURRENT_DATE - call_date) and its cosine
\* distance to the query embedding, in tenths (0 .. 20).
MaxRows == 2        \* rows of the view
\* the (organization name, project name) of a call; None: the call has no project
Contexts == {<<1, 1>>, <<1, None>>, <<2, 1>>}
Ages == {0, 1}                      \* days_old
Distances == {5, 10, 15}            \* embedding <=> query, in tenths
Limits == {1, 2}
DecayRates == {<<19, 20>>}    \* decay_rate as a fraction; 19/20 = DECAY_RATE
NoDaysBack == -1                    \* days_back: int = None
RECURSIVE Pow(_, _)
Pow(b, n) == IF n = 0 THEN 1 ELSE b * Pow(b, n - 1)

Oldest(rows) == CHOOSE a \in {r.days_old : r \in rows} : \A r \in rows : r.days_old <= a
Youngest(rows) == CHOOSE a \in {r.days_old : r \in rows} : \A r \in rows : a <= r.days_old

\* line 69: (1 - distance) * POWER(decay_rate, days_old), an exact integer: the
\* score times 10 * den^oldest / num^youngest, the same factor for every row of
\* a search (youngest, oldest: the ages of its youngest and its oldest row)
RecencyScore_NoDecay(distance, days_old, decay_rate, youngest, oldest) ==
    (10 - distance) * Pow(decay_rate[2], oldest - youngest)

RecencyScore(distance, days_old, decay_rate, youngest, oldest) ==
    (10 - distance) * Pow(decay_rate[1], days_old - youngest)
                    * Pow(decay_rate[2], oldest - days_old)

\* line 50: if days_back is not None
HasWindow_Truthy(days_back) == days_back # NoDaysBack /\ days_back # 0

HasWindow(days_back) == days_back # NoDaysBack

\* lines 42-56: the WHERE clause
Where(row, client_name, project_name, days_back) ==
    /\ Truthy(client_name) => row.client_name = client_name
    /\ Truthy(project_name) => row.project_name = project_name
    /\ HasWindow(days_back) => row.days_old <= days_back

\* lines 63-72: the rows of the CTE scored
Scored(rows, decay_rate) ==
    {[id |-> r.id, client_name |-> r.client_name, project_name |-> r.project_name,
      days_old |-> r.days_old, distance |-> r.distance,
      recency_score |-> RecencyScore(r.distance, r.days_old, decay_rate,
                                     Youngest(rows), Oldest(rows))] :
       r \in rows}

\* line 74: ORDER BY recency_score DESC; rows of equal score in any order
RECURSIVE ScoreOrders(_)
ScoreOrders(rows) ==
    IF rows = {} THEN {<<>>}
    ELSE UNION {{<<r>> \o rest : rest \in ScoreOrders(rows \ {r})} :
                  r \in {x \in rows : \A o \in rows : o.recency_score <= x.recency_score}}

\* line 75: LIMIT
Limit(order, limit) == SubSeq(order, 1, Min({limit, Len(order)}))

SearchResults(client_name, project_name, days_back, limit, decay_rate) ==
    {Limit(order, limit) :
       order \in ScoreOrders(Scored({r \in view_rows :
                     Where(r, client_name, project_name, days_back)}, decay_rate))}

\* line 35: query_embedding = get_embedding(query). The embedder is a
\* collaborator: it is up and returns a vector, or it is down and raises.
Embedders == {"up", "down"}
Queries == {"q", "", " "}       \* a query, the empty one and a blank one

\* what reaches the caller when get_embedding raised: its exception, after one
\* call of the embedder and before any query on the chunk store
\* faulty variant: the store is queried although the embedder raised
Raised_AfterQuery(name, query) ==
    [op |-> name, error |-> "embedder", query |-> query,
     embed_calls |-> 1, db_queries |-> 1]

Raised(name, query) ==
    [op |-> name, error |-> "embedder", query |-> query,
     embed_calls |-> 1, db_queries |-> 0]

semantic_search(query, client_name, project_name, limit, days_back, decay_rate, embedder) ==
    /\ IF embedder = "down"
       THEN ret' = Raised("semantic_search_raised", query)
       ELSE \E rows \in SearchResults(client_name, project_name, days_back, limit,
                                      decay_rate) :
              ret' = [op |-> "semantic_search", query |-> query,
                      client_name |-> client_name, project_name |-> project_name,
                      limit |-> limit, days_back |-> days_back,
                      decay_rate |-> decay_rate, rows |-> rows,
                      embedder |-> embedder, embed_calls |-> 1, db_queries |-> 1]
    /\ UNCHANGED <<call_chunks, chunk_clusters, tx, seen, text, view_rows>>

\* a chunk of some call comes into the view (create_call, insert_chunks)
AddContextRow ==
    /\ Cardinality(view_rows) < MaxRows
    /\ \E context \in Contexts, days_old \in Ages, distance \in Distances :
         view_rows' = view_rows \cup
            {[id |-> Cardinality(view_rows) + 1, client_name |-> context[1],
              project_name |-> context[2], days_old |-> days_old,
              distance |-> distance]}
    /\ ret' = [op |-> "insert_chunks", call_id |-> None, count |-> 1]
    /\ UNCHANGED <<call_chunks, chunk_clusters, tx, seen, text>>

DoSemanticSearch ==
    \E client_name \in {None, 1}, project_name \in {None, 1}, limit \in Limits,
       days_back \in {NoDaysBack, 0}, decay_rate \in DecayRates :
      semantic_search("q", client_name, project_name, limit, days_back, decay_rate,
                      "up")

SearchNext == AddContextRow \/ DoSemanticSearch

SpecSearch == Init /\ [][SearchNext]_vars

\* ----------------------------------------------------------------------
\* Properties of semantic search
\* ----------------------------------------------------------------------
IsSearch == ret.op = "semantic_search"

Returned == {ret.rows[k] : k \in DOMAIN ret.rows}

\* the candidates of the search in ret: the rows that pass the name filters
\* that were given and, when days_back was given, the window
Candidates ==
    Scored({r \in view_rows :
              /\ ret.client_name # None => r.client_name = ret.client_name
              /\ ret.project_name # None => r.project_name = ret.project_name
              /\ ret.days_back # NoDaysBack => r.days_old <= ret.days_back},
           ret.decay_rate)

\* C9: semantic_search returns exactly the top `limit` candidates by
\* recency_score. The candidates pass the name filters and, when days_back is
\* given (0 included), the window; the result holds min(limit, candidates)
\* distinct candidates, sorted by score non-increasing, and no omitted
\* candidate scores strictly higher than a returned one.
C9_TopLimit ==
    IsSearch =>
      /\ Returned \subseteq Candidates
      /\ Len(ret.rows) = Min({ret.limit, Cardinality(Candidates)})
      /\ Cardinality(Returned) = Len(ret.rows)
      /\ \A j, k \in DOMAIN ret.rows :
           j < k => ret.rows[j].recency_score >= ret.rows[k].recency_score
      /\ \A c \in Candidates \ Returned, r \in Returned :
           c.recency_score <= r.recency_score

\* C9 witness: a search with both name filters and days_back = 0 over two
\* candidates of different scores returned the better one, limit = 1
C9_Witness ==
    /\ IsSearch
    /\ ret.client_name # None /\ ret.project_name # None
    /\ ret.days_back = 0
    /\ ret.limit = 1 /\ Len(ret.rows) = 1
    /\ \E c \in Candidates : c.recency_score < ret.rows[1].recency_score

\* every row of the view scored as the search in ret scores it
AllScored == Scored(view_rows, ret.decay_rate)

Position(row) == CHOOSE k \in DOMAIN ret.rows : ret.rows[k] = row

SameDistance(a, b) == a.distance = b.distance /\ a.days_old < b.days_old
SameAge(a, b) == a.days_old = b.days_old /\ a.distance < b.distance

\* C10 as stated: the score is strictly decreasing in days_old at every fixed
\* distance in [0, 2] and strictly decreasing in distance at every fixed
\* days_old, so of two returned rows at equal distance the fresher comes first.
C10_StrictlyDecreasing ==
    IsSearch =>
      /\ \A a, b \in AllScored :
           /\ SameDistance(a, b) => a.recency_score > b.recency_score
           /\ SameAge(a, b) => a.recency_score > b.recency_score
      /\ \A a, b \in Returned : SameDistance(a, b) => Position(a) < Position(b)

\* C10 amended: strictly decreasing in days_old at every fixed distance below
\* 1, constant at distance 1 and strictly increasing at every distance above
\* 1; strictly decreasing in distance at every fixed days_old; of two returned
\* rows at equal distance below 1 the fresher comes first, at equal distance
\* above 1 the older.
C10_DecreasingBelowOne ==
    IsSearch =>
      /\ \A a, b \in AllScored :
           /\ SameDistance(a, b) /\ a.distance < 10 => a.recency_score > b.recency_score
           /\ SameDistance(a, b) /\ a.distance = 10 => a.recency_score = b.recency_score
           /\ SameDistance(a, b) /\ a.distance > 10 => a.recency_score < b.recency_score
           /\ SameAge(a, b) => a.recency_score > b.recency_score
      /\ \A a, b \in Returned :
           /\ SameDistance(a, b) /\ a.distance < 10 => Position(a) < Position(b)
           /\ SameDistance(a, b) /\ a.distance > 10 => Position(b) < Position(a)

\* C10 witness: a search returned two rows at one distance below 1, the
\* fresher and the older
C10_Witness ==
    /\ IsSearch
    /\ \E a, b \in Returned : SameDistance(a, b) /\ a.distance < 10

\* ======================================================================
\* search.py: hybrid search (SpecHybrid)
\* ======================================================================
\* The rows of the view carry, beside the distance to the query embedding, the
\* lexical rank of the query on their search_vector (ts_rank_cd, in tenths);
\* rank 0: the row does not match the query (search_vector @@ query is false).
MaxCandidates == 1      \* LIMIT 100 of both candidate queries, scaled to the view
HybridContexts == {<<1, 1>>}
HybridAges == {21, 22}
HybridDistances == {2, 5, 8}        \* 0.8 is the cutoff of the semantic candidates
Ranks == {0, 1, 2}
Weights == {<<7, 3>>}               \* semantic_weight = 0.7, fts_weight = 0.3

IsBlank(query) == query \in {"", " "}

\* rows sorted by their key descending; rows of equal key in any order
RECURSIVE KeyOrders(_)
KeyOrders(keyed) ==
    IF keyed = {} THEN {<<>>}
    ELSE UNION {{<<r>> \o rest : rest \in KeyOrders(keyed \ {r})} :
                  r \in {x \in keyed : \A o \in keyed : o.key <= x.key}}

\* ORDER BY key DESC LIMIT k: the ids that can come back
TopIds(keyed, k) ==
    {{order[i].id : i \in 1..Min({k, Len(order)})} : order \in KeyOrders(keyed)}

\* lines 148-157: WHERE embedding <=> query < 0.8 {filters}
\*                ORDER BY embedding <=> query LIMIT 100
SemanticCandidates(client_name, project_name, days_back) ==
    TopIds({[id |-> r.id, key |-> 0 - r.distance] :
              r \in {x \in view_rows : /\ x.distance < 8
                                       /\ Where(x, client_name, project_name, days_back)}},
           MaxCandidates)

\* lines 158-167: WHERE search_vector @@ websearch_to_tsquery(query) {filters}
\*                ORDER BY ts_rank_cd(...) DESC LIMIT 100
LexicalCandidates(query, client_name, project_name, days_back) ==
    TopIds({[id |-> r.id, key |-> r.fts_rank] :
              r \in {x \in view_rows : /\ x.fts_rank > 0 /\ ~IsBlank(query)
                                       /\ Where(x, client_name, project_name, days_back)}},
           MaxCandidates)

\* line 150, line 160: the two scores, in tenths
SemanticScore(row) == (10 - row.distance) * 8
FtsScore(row) == row.fts_rank * 8

\* lines 179-180: (s * semantic_weight + f * fts_weight) * POWER(decay_rate,
\* days_old), an exact integer as RecencyScore is
CombinedScore(semantic_score, fts_score, weights, days_old, decay_rate, youngest, oldest) ==
    (semantic_score * weights[1] + fts_score * weights[2])
       * Pow(decay_rate[1], days_old - youngest)
       * Pow(decay_rate[2], oldest - days_old)

\* lines 168-182: FROM semantic s FULL OUTER JOIN fts f ON s.id = f.id, with
\* COALESCE(score, 0) for the side that is missing
FullOuterJoin_Inner(semantic, fts) == semantic \cap fts

FullOuterJoin(semantic, fts) == semantic \cup fts

Merged(semantic, fts, weights, decay_rate) ==
    LET rows == {r \in view_rows : r.id \in FullOuterJoin(semantic, fts)}
    IN {[id |-> r.id, days_old |-> r.days_old,
         semantic_score |-> IF r.id \in semantic THEN SemanticScore(r) ELSE 0,
         fts_score |-> IF r.id \in fts THEN FtsScore(r) ELSE 0,
         key |-> CombinedScore(IF r.id \in semantic THEN SemanticScore(r) ELSE 0,
                               IF r.id \in fts THEN FtsScore(r) ELSE 0,
                               weights, r.days_old, decay_rate,
                               Youngest(rows), Oldest(rows))] : r \in rows}

\* lines 183-184: ORDER BY combined_score DESC LIMIT %s
HybridRows(merged, limit) ==
    {[i \in DOMAIN top |->
         [id |-> top[i].id, days_old |-> top[i].days_old,
          semantic_score |-> top[i].semantic_score, fts_score |-> top[i].fts_score,
          combined_score |-> top[i].key]] :
       top \in {Limit(order, limit) : order \in KeyOrders(merged)}}

hybrid_search(query, client_name, project_name, limit, days_back, decay_rate, weights, embedder) ==
    /\ IF embedder = "down"
       THEN ret' = Raised("hybrid_search_raised", query)
       ELSE \E semantic \in SemanticCandidates(client_name, project_name, days_back),
               fts \in LexicalCandidates(query, client_name, project_name, days_back) :
              \E rows \in HybridRows(Merged(semantic, fts, weights, decay_rate), limit) :
                ret' = [op |-> "hybrid_search", query |-> query,
                        client_name |-> client_name, project_name |-> project_name,
                        limit |-> limit, days_back |-> days_back,
                        decay_rate |-> decay_rate, weights |-> weights,
                        semantic |-> semantic, fts |-> fts, rows |-> rows,
                        embedder |-> embedder, embed_calls |-> 1, db_queries |-> 1]
    /\ UNCHANGED <<call_chunks, chunk_clusters, tx, seen, text, view_rows>>

\* a chunk of some call comes into the view, with its lexical rank
AddRankedRow(contexts, ages, distances, ranks) ==
    /\ Cardinality(view_rows) < MaxRows
    /\ \E context \in contexts, days_old \in ages, distance \in distances,
          fts_rank \in ranks :
         view_rows' = view_rows \cup
            {[id |-> Cardinality(view_rows) + 1, client_name |-> context[1],
              project_name |-> context[2], days_old |-> days_old,
              distance |-> distance, fts_rank |-> fts_rank]}
    /\ ret' = [op |-> "insert_chunks", call_id |-> None, count |-> 1]
    /\ UNCHANGED <<call_chunks, chunk_clusters, tx, seen, text>>

AddHybridRow == AddRankedRow(HybridContexts, HybridAges, HybridDistances, Ranks)

DoHybridSearch ==
    \E limit \in Limits, days_back \in {NoDaysBack, 21},
       decay_rate \in DecayRates, weights \in Weights :
      hybrid_search("q", None, None, limit, days_back, decay_rate, weights, "up")

HybridNext == AddHybridRow \/ DoHybridSearch

SpecHybrid == Init /\ [][HybridNext]_vars

\* ----------------------------------------------------------------------
\* Properties of hybrid search
\* ----------------------------------------------------------------------
IsHybrid == ret.op = "hybrid_search"

InWindow(row) == ret.days_back # NoDaysBack => row.days_old <= ret.days_back
RowOf(id) == CHOOSE r \in view_rows : r.id = id

\* S is a top-k of the rows E, each ranked by measure[id], the higher the better
IsTop(S, E, k, measure) ==
    /\ S \subseteq {r.id : r \in E}
    /\ Cardinality(S) = Min({k, Cardinality(E)})
    /\ \A out \in {r \in E : r.id \notin S}, in \in {r \in E : r.id \in S} :
         measure[out.id] <= measure[in.id]

Closeness == [id \in {r.id : r \in view_rows} |-> 0 - RowOf(id).distance]
LexicalRank == [id \in {r.id : r \in view_rows} |-> RowOf(id).fts_rank]

\* C11: hybrid_search merges the semantic candidates (distance < 0.8, the
\* closest ones up to the cap) and the lexical candidates (the matches of
\* highest rank up to the cap) by chunk id: every chunk of either set is in the
\* merged set once, a chunk of one set only scores 0 in the other dimension,
\* every returned row has combined_score = (semantic_score * semantic_weight +
\* fts_score * fts_weight) * decay_rate ^ days_old, and the rows are the
\* merged set ordered by combined_score non-increasing, cut at limit.
C11_HybridMerge ==
    IsHybrid =>
      LET merged == ret.semantic \cup ret.fts
          returned == {ret.rows[i].id : i \in DOMAIN ret.rows}
          scale == {r \in view_rows : r.id \in merged}
      IN /\ IsTop(ret.semantic, {r \in view_rows : r.distance < 8 /\ InWindow(r)},
                  MaxCandidates, Closeness)
         /\ IsTop(ret.fts, {r \in view_rows : r.fts_rank > 0 /\ InWindow(r)},
                  MaxCandidates, LexicalRank)
         /\ returned \subseteq merged
         /\ Len(ret.rows) = Min({ret.limit, Cardinality(merged)})
         /\ Cardinality(returned) = Len(ret.rows)
         /\ \A i \in DOMAIN ret.rows :
              LET row == ret.rows[i]
                  chunk == RowOf(row.id)
              IN /\ row.semantic_score
                      = IF row.id \in ret.semantic THEN (10 - chunk.distance) * 8 ELSE 0
                 /\ row.fts_score
                      = IF row.id \in ret.fts THEN chunk.fts_rank * 8 ELSE 0
                 /\ row.combined_score
                      = (row.semantic_score * ret.weights[1]
                           + row.fts_score * ret.weights[2])
                          * Pow(ret.decay_rate[1], chunk.days_old - Youngest(scale))
                          * Pow(ret.decay_rate[2], Oldest(scale) - chunk.days_old)
         /\ \A i, j \in DOMAIN ret.rows :
              i < j => ret.rows[i].combined_score >= ret.rows[j].combined_score
         /\ \A id \in merged \ returned : \A i \in DOMAIN ret.rows :
              CombinedScore(IF id \in ret.semantic THEN SemanticScore(RowOf(id)) ELSE 0,
                            IF id \in ret.fts THEN FtsScore(RowOf(id)) ELSE 0,
                            ret.weights, RowOf(id).days_old, ret.decay_rate,
                            Youngest(scale), Oldest(scale))
                <= ret.rows[i].combined_score

\* C11 witness: two rows came back, one a semantic candidate only and one a
\* lexical candidate only, the second within 0.8 of the query but cut from the
\* semantic candidates by the cap
C11_Witness ==
    /\ IsHybrid
    /\ Len(ret.rows) = 2
    /\ \E a \in ret.semantic \ ret.fts, b \in ret.fts \ ret.semantic :
         RowOf(b).distance < 8

\* ----------------------------------------------------------------------
\* search.py: the three searches with any query and embedder (SpecEmbed)
\* ----------------------------------------------------------------------
DEFAULT_DAYS_BACK == 21      \* config.py line 17
DECAY_RATE == <<19, 20>>     \* config.py line 18: 0.95

EmbedContexts == {<<1, 1>>, <<2, 1>>}
EmbedAges == {21, 22}        \* the last day of the window and the day before it
EmbedDistances == {5}
EmbedRanks == {0, 1}

\* faulty variant: the flag is raised when one row or none came back
NeedsExpansion_Few(results) == Len(results) <= 1

\* line 216: len(results) == 0
NeedsExpansion(results) == Len(results) = 0

\* lines 190-217: semantic_search with the default window, then the flag
semantic_search_with_fallback(query, client_name, project_name, limit, embedder) ==
    /\ IF embedder = "down"
       THEN ret' = Raised("semantic_search_with_fallback_raised", query)
       ELSE \E results \in SearchResults(client_name, project_name,
                                         DEFAULT_DAYS_BACK, limit, DECAY_RATE) :
              ret' = [op |-> "semantic_search_with_fallback", query |-> query,
                      client_name |-> client_name, project_name |-> project_name,
                      limit |-> limit, results |-> results,
                      days_back |-> DEFAULT_DAYS_BACK,
                      needs_expansion |-> NeedsExpansion(results),
                      embedder |-> embedder, embed_calls |-> 1, db_queries |-> 1]
    /\ UNCHANGED <<call_chunks, chunk_clusters, tx, seen, text, view_rows>>

AddEmbedRow == AddRankedRow(EmbedContexts, EmbedAges, EmbedDistances, EmbedRanks)

DoSearchAny ==
    \E query \in Queries, embedder \in Embedders, client_name \in {None, 1} :
      semantic_search(query, client_name, None, 1, NoDaysBack, DECAY_RATE, embedder)

DoHybridAny ==
    \E query \in Queries, embedder \in Embedders, weights \in Weights :
      hybrid_search(query, None, None, 2, NoDaysBack, DECAY_RATE, weights, embedder)

DoFallbackSearch ==
    \E query \in Queries, embedder \in Embedders, client_name \in {None, 1},
       limit \in Limits :
      semantic_search_with_fallback(query, client_name, None, limit, embedder)

EmbedNext == AddEmbedRow \/ DoSearchAny \/ DoHybridAny \/ DoFallbackSearch

SpecEmbed == Init /\ [][EmbedNext]_vars

\* ----------------------------------------------------------------------
\* Properties of the searches under a failing embedder and any query
\* ----------------------------------------------------------------------
SearchOps == {"semantic_search", "hybrid_search", "semantic_search_with_fallback"}
RaisedOps == {"semantic_search_raised", "hybrid_search_raised",
              "semantic_search_with_fallback_raised"}

\* C12: when the embedder fails on the query, semantic_search and
\* hybrid_search fail with the embedder's error: the embedder was called once
\* (nothing retried), no query went to the chunk store, no result list came
\* back; and a search that returned a list had a working embedder.
C12_EmbedderErrorPropagates ==
    /\ ret.op \in RaisedOps =>
         /\ ret.error = "embedder"
         /\ ret.embed_calls = 1
         /\ ret.db_queries = 0
         /\ DOMAIN ret \cap {"rows", "results", "fts", "semantic"} = {}
    /\ ret.op \in SearchOps => ret.embedder = "up"

\* C12 witness: hybrid_search raised while the view holds a row that matches
\* the query lexically
C12_Witness ==
    /\ ret.op = "hybrid_search_raised"
    /\ ret.query = "q"
    /\ \E r \in view_rows : r.fts_rank > 0

\* C13: a search with an empty or blank query is rejected with InvalidInput
\* before the embedder is called and before any query to the chunk store.
C13_BlankQueryRejected ==
    (ret.op \in SearchOps \cup RaisedOps /\ IsBlank(ret.query)) =>
      /\ ret.op \in RaisedOps
      /\ ret.error = "InvalidInput"
      /\ ret.embed_calls = 0
      /\ ret.db_queries = 0

IsFallback == ret.op = "semantic_search_with_fallback"

\* C18: semantic_search_with_fallback searches with the window of 21 days,
\* reports it, returns a list semantic_search returns for that window (no row
\* older than 21 days, no row of another client, the list empty only when no
\* row of the view is in the window), and needs_expansion is true exactly
\* when the list is empty.
C18_FallbackWindow ==
    IsFallback =>
      LET inWindow == {r \in view_rows :
                         /\ r.days_old <= 21
                         /\ ret.client_name # None => r.client_name = ret.client_name}
      IN /\ ret.days_back = 21
         /\ ret.results \in SearchResults(ret.client_name, ret.project_name, 21,
                                          ret.limit, DECAY_RATE)
         /\ \A i \in DOMAIN ret.results : ret.results[i].id \in {r.id : r \in inWindow}
         /\ Len(ret.results) = Min({ret.limit, Cardinality(inWindow)})
         /\ ret.needs_expansion <=> ret.results = <<>>

\* C18 witness: the only rows of the view are 22 days old, the list is empty
\* and the flag is raised
C18_Witness ==
    /\ IsFallback
    /\ view_rows # {}
    /\ ret.results = <<>>
    /\ ret.needs_expansion

\* ----------------------------------------------------------------------
\* Properties of chunk_transcript's size arguments
\* ----------------------------------------------------------------------
\* C20: chunk_transcript with min_chunk_size >= max_chunk_size is rejected
\* with InvalidInput and produces no chunks: a call that returns a list of
\* chunks was made with min_chunk_size < max_chunk_size.
C20_BoundsRejected ==
    IsChunk => ret.min_chunk_size < ret.max_chunk_size

\* ----------------------------------------------------------------------
\* chunking.py: chunk_by_sections, character by character (SpecSection)
\* ----------------------------------------------------------------------
MaxSectionPieces == 4     \* pieces a structured note is put together from
SectionPieces == {<<"a">>, <<"B">>, <<" ">>, <<NL>>, <<"#">>, <<":">>,
                  <<"1", ".">>, <<"a", ")">>}
MinSizes == {0, 1, 4}     \* min_chunk_size

RECURSIVE SectionTexts(_)
SectionTexts(n) ==
    IF n = 0 THEN {<<>>}
    ELSE {<<>>} \cup {p \o t : p \in SectionPieces, t \in SectionTexts(n - 1)}

Digit == {"1"}                          \* \d
Hash == {"#"}
Space == {" ", NL}                      \* \s
IsLower(c) == c = "a"                   \* [a-z]
IsCapsOrSpace(c) == IsUpper(c) \/ IsSpace(c)      \* [A-Z\s]

\* the number of characters from position i on that are of the class
Run(s, i, class) ==
    LET stop == {j \in i..Len(s) : s[j] \notin class}
    IN IF stop = {} THEN Max(Len(s) - i + 1, 0) ELSE Min(stop) - i

\* ^#{1,4}\s+
MarkdownHeader(s) ==
    LET n == Run(s, 1, Hash)
    IN n \in 1..4 /\ Len(s) > n /\ IsSpace(s[n + 1])

\* ^\d+\.\s+[A-Z]
NumberedSection(s) ==
    LET n == Run(s, 1, Digit)
        k == Run(s, n + 2, Space)
    IN /\ n >= 1
       /\ Len(s) > n /\ s[n + 1] = "."
       /\ k >= 1
       /\ Len(s) >= n + 2 + k /\ IsUpper(s[n + 2 + k])

\* ^[a-z]\)\s+[A-Z]
LetteredSection(s) ==
    LET k == Run(s, 3, Space)
    IN /\ Len(s) >= 2 /\ IsLower(s[1]) /\ s[2] = ")"
       /\ k >= 1
       /\ Len(s) >= 3 + k /\ IsUpper(s[3 + k])

\* ^[A-Z][A-Z\s]+:$
CapsHeader(s) ==
    /\ Len(s) >= 3 /\ IsUpper(s[1]) /\ s[Len(s)] = ":"
    /\ \A i \in 2..Len(s) - 1 : IsCapsOrSpace(s[i])

\* ^[A-Z][A-Z\s]+$
CapsLine(s) ==
    /\ Len(s) >= 2 /\ IsUpper(s[1])
    /\ \A i \in 2..Len(s) : IsCapsOrSpace(s[i])

\* lines 43-50
is_section_start(line) ==
    LET stripped == Strip(line)
    IN /\ stripped # <<>>
       /\ \/ MarkdownHeader(stripped)
          \/ NumberedSection(stripped)
          \/ LetteredSection(stripped)
          \/ CapsHeader(stripped)
          \/ CapsLine(stripped)

\* '\n'.join(list)
RECURSIVE JoinLines(_)
JoinLines(list) ==
    IF list = <<>> THEN <<>>
    ELSE IF Len(list) = 1 THEN list[1]
    ELSE list[1] \o <<NL>> \o JoinLines(Tail(list))

\* str.startswith
StartsWith(s, prefix) ==
    Len(prefix) <= Len(s) /\ SubSeq(s, 1, Len(prefix)) = prefix

\* lines 52-61; st holds chunks, current_chunk_lines and current_header
flush_chunk(st, min_chunk_size) ==
    IF st.current_chunk_lines = <<>> THEN st
    ELSE LET chunk_text == Strip(JoinLines(st.current_chunk_lines))
             with_header ==
                 IF st.current_header # <<>>
                    /\ ~StartsWith(chunk_text, st.current_header)
                 THEN st.current_header \o <<NL>> \o chunk_text
                 ELSE chunk_text
         IN [st EXCEPT !.chunks = IF Len(chunk_text) >= min_chunk_size
                                  THEN Append(@, with_header) ELSE @,
                       !.current_chunk_lines = <<>>]

\* lines 63-69
RECURSIVE SectionLoop(_, _, _)
SectionLoop(lines, st, min_chunk_size) ==
    IF lines = <<>> THEN st
    ELSE LET line == Head(lines)
         IN IF is_section_start(line)
            THEN SectionLoop(Tail(lines),
                   [flush_chunk(st, min_chunk_size)
                      EXCEPT !.current_header = Strip(line),
                             !.current_chunk_lines = <<line>>],
                   min_chunk_size)
            ELSE SectionLoop(Tail(lines),
                   [st EXCEPT !.current_chunk_lines = Append(@, line)],
                   min_chunk_size)

\* line 76: [p.strip() for p in text.split('\n\n')
\*           if p.strip() and len(p.strip()) >= min_chunk_size]
RECURSIVE Paragraphs(_, _)
Paragraphs(list, min_chunk_size) ==
    IF list = <<>> THEN <<>>
    ELSE LET p == Strip(Head(list))
         IN IF p # <<>> /\ Len(p) >= min_chunk_size
            THEN <<p>> \o Paragraphs(Tail(list), min_chunk_size)
            ELSE Paragraphs(Tail(list), min_chunk_size)

\* lines 19-82
SectionChunks(s, min_chunk_size) ==
    LET looped == SectionLoop(SplitLines(s),
                      [chunks |-> <<>>, current_chunk_lines |-> <<>>,
                       current_header |-> <<>>], min_chunk_size)
        sections == flush_chunk(looped, min_chunk_size).chunks
        paragraphs == IF sections = <<>>
                      THEN Paragraphs(SplitTurns(s), min_chunk_size)
                      ELSE sections
    IN IF paragraphs = <<>> /\ Strip(s) # <<>> THEN <<Strip(s)>> ELSE paragraphs

chunk_by_sections(min_chunk_size) ==
    /\ ret' = [op |-> "chunk_by_sections", min_chunk_size |-> min_chunk_size,
               chunks |-> SectionChunks(text, min_chunk_size)]
    /\ UNCHANGED <<call_chunks, chunk_clusters, tx, seen, text, view_rows>>

SectionInit ==
    /\ StoreIdle
    /\ ret = [op |-> "none"]
    /\ text \in SectionTexts(MaxSectionPieces)
    /\ view_rows = {}

DoChunkBySections == \E min_chunk_size \in MinSizes : chunk_by_sections(min_chunk_size)

SectionNext == DoChunkBySections

SpecSection == SectionInit /\ [][SectionNext]_vars

\* ----------------------------------------------------------------------
\* Properties of chunk_by_sections
\* ----------------------------------------------------------------------
IsSections == ret.op = "chunk_by_sections"

\* C19: chunk_by_sections returns the empty list for a text of length zero and
\* at least one chunk for every text of length one or more, whatever
\* min_chunk_size is.
C19_EmptyOnlyForEmpty ==
    IsSections => (ret.chunks = <<>> <=> text = <<>>)

\* ----------------------------------------------------------------------
\* clustering.py: compute, store and list clusters (SpecCluster)
\* ----------------------------------------------------------------------
MaxClusterChunks == 3
ClusterEmbSet == {0, 1, 2}                \* 0, 30 and 60 degrees
ClusterThresholds == {1340, 3000}         \* 1340 is the distance of 30 degrees
ClusterCalls == {1}
\* the embeddings of the chunks of a call in the listing model
DetailEmbSet(call_id) == IF call_id = 1 THEN {NoEmbedding, 0, 2} ELSE {0}
DetailScopes == {None, 1}
DetailThresholds == {3000}
DetailMinSizes == {1, 2}                  \* min_size

\* the merges of fit_predict in the order they are made: the partition before
\* the merge and the two clusters joined
RECURSIVE MergeHistory(_, _, _)
MergeHistory(part, rows, distance_threshold) ==
    IF Cardinality(part) < 2 THEN <<>>
    ELSE LET best == FirstPair(Nearest(Links(part, rows)))
         IN IF BelowThreshold(best, distance_threshold)
            THEN <<[part |-> part, a |-> best.a, b |-> best.b]>>
                 \o MergeHistory((part \ {best.a, best.b}) \cup {best.a \cup best.b},
                                 rows, distance_threshold)
            ELSE <<>>

\* lines 101-143 as an operation of its own
compute_clusters_call(call_id, distance_threshold) ==
    /\ \E rows \in fetch_embeddings(call_id) :
         ret' = [op |-> "compute_clusters", call_id |-> call_id,
                 distance_threshold |-> distance_threshold, rows |-> rows,
                 merges |-> MergeHistory({{i} : i \in DOMAIN rows}, rows,
                                         distance_threshold),
                 clusters |-> compute_clusters(rows, distance_threshold)]
    /\ UNCHANGED <<call_chunks, chunk_clusters>>

\* faulty variant: HAVING count(*) > min_size
Having_Above(size, min_size) == size > min_size

\* line 209: HAVING count(*) >= %s
Having(size, min_size) == size >= min_size

\* lines 204-213: the rows of chunk_clusters joined with the chunks of the
\* scope, grouped by cluster_id
Grouped(call_id) ==
    LET joined == {r \in chunk_clusters : r.chunk_id \in InScope(call_id)}
    IN {[cluster_id |-> cid,
         size |-> Cardinality({r \in joined : r.cluster_id = cid}),
         key |-> Cardinality({r \in joined : r.cluster_id = cid})] :
           cid \in {r.cluster_id : r \in joined}}

\* ORDER BY ca.call_date, c.chunk_idx
MemberOrdered(a, b) ==
    \/ CallDate(a.call_id) < CallDate(b.call_id)
    \/ CallDate(a.call_id) = CallDate(b.call_id) /\ a.chunk_idx <= b.chunk_idx

RECURSIVE MemberOrders(_)
MemberOrders(ids) ==
    IF ids = {} THEN {<<>>}
    ELSE UNION {{<<[id |-> i, call_id |-> call_chunks[i].call_id,
                    call_date |-> CallDate(call_chunks[i].call_id)]>> \o s :
                   s \in MemberOrders(ids \ {i})} :
                  i \in {m \in ids : \A o \in ids :
                           MemberOrdered(call_chunks[m], call_chunks[o])}}

\* lines 217-232: the second query, once per cluster row
RECURSIVE Details(_, _)
Details(cluster_rows, call_id) ==
    IF cluster_rows = <<>> THEN {<<>>}
    ELSE LET cr == Head(cluster_rows)
             members == {r.chunk_id : r \in {x \in chunk_clusters :
                            /\ x.cluster_id = cr.cluster_id
                            /\ x.chunk_id \in InScope(call_id)}}
         IN {<<[cluster_id |-> cr.cluster_id, size |-> cr.size, chunks |-> chunks]>>
               \o rest : chunks \in MemberOrders(members),
                         rest \in Details(Tail(cluster_rows), call_id)}

\* lines 182-233
get_cluster_details(call_id, min_size) ==
    /\ \E cluster_rows \in KeyOrders({g \in Grouped(call_id) : Having(g.size, min_size)}) :
         \E results \in Details(cluster_rows, call_id) :
            ret' = [op |-> "get_cluster_details", call_id |-> call_id,
                    min_size |-> min_size, results |-> results]
    /\ UNCHANGED <<call_chunks, chunk_clusters>>

ClusterInsertChunks ==
    /\ \E call_id \in ClusterCalls, n \in BatchSizes :
          \E embs \in [1..n -> ClusterEmbSet] :
              /\ Len(call_chunks) + Len(embs) <= MaxClusterChunks
              /\ insert_chunks(call_id, embs)
    /\ UNCHANGED <<tx, seen, text, view_rows>>

ClusterCompute ==
    /\ \E call_id \in ClusterCalls, t \in ClusterThresholds :
          compute_clusters_call(call_id, t)
    /\ UNCHANGED <<tx, seen, text, view_rows>>

ClusterNext == ClusterInsertChunks \/ ClusterCompute

SpecCluster == Init /\ [][ClusterNext]_vars

\* ----------------------------------------------------------------------
\* clustering.py: store and list clusters (SpecDetails)
\* ----------------------------------------------------------------------
DetailInsertChunks ==
    /\ \E call_id \in Calls, n \in BatchSizes :
          \E embs \in [1..n -> DetailEmbSet(call_id)] :
              /\ Len(call_chunks) + Len(embs) <= MaxClusterChunks
              /\ insert_chunks(call_id, embs)
    /\ UNCHANGED <<tx, seen, text, view_rows>>

DetailStore ==
    /\ \E call_id \in DetailScopes, t \in DetailThresholds :
          store_clusters(call_id, t)
    /\ UNCHANGED <<tx, seen, text, view_rows>>

DetailList ==
    /\ \E call_id \in DetailScopes, min_size \in DetailMinSizes :
          get_cluster_details(call_id, min_size)
    /\ UNCHANGED <<tx, seen, text, view_rows>>

DetailNext == DetailInsertChunks \/ DetailStore \/ DetailList

SpecDetails == Init /\ [][DetailNext]_vars

\* ----------------------------------------------------------------------
\* Properties of compute_clusters
\* ----------------------------------------------------------------------
IsCompute == ret.op = "compute_clusters"

\* the clusters returned, as sets of row positions
FinalPart(r) ==
    {{i \in DOMAIN r.rows : \E k \in DOMAIN r.clusters[label] :
                               r.clusters[label][k] = r.rows[i].id} :
       label \in DOMAIN r.clusters}

\* the partition the k-th merge leaves
AfterMerge(m) == (m.part \ {m.a, m.b}) \cup {m.a \cup m.b}

\* the merges start from the single rows, each works on what the one before
\* left, and the clusters returned are what the last one left
Chained(r) ==
    LET start == {{i} : i \in DOMAIN r.rows}
    IN /\ \A k \in DOMAIN r.merges :
            /\ r.merges[k].part
                 = IF k = 1 THEN start ELSE AfterMerge(r.merges[k - 1])
            /\ r.merges[k].a \in r.merges[k].part
            /\ r.merges[k].b \in r.merges[k].part
            /\ r.merges[k].a # r.merges[k].b
       /\ FinalPart(r) = IF r.merges = <<>> THEN start
                         ELSE AfterMerge(r.merges[Len(r.merges)])

\* every merge joined two clusters at the minimum average distance of its step
MergedNearest(r) ==
    \A k \in DOMAIN r.merges :
      LET m == r.merges[k]
      IN \A C, D \in m.part :
           C # D => LinkNum(m.a, m.b, r.rows) * LinkDen(C, D)
                      <= LinkNum(C, D, r.rows) * LinkDen(m.a, m.b)

\* C14 (as claimed): on two or more embedded chunks every two distinct final
\* clusters are at an average distance exceeding distance_threshold, and every
\* merge joined the two clusters at the minimum average distance of its step,
\* a distance that did not exceed the threshold.
C14_StopsAboveThreshold ==
    (IsCompute /\ Len(ret.rows) >= 2) =>
      /\ Chained(ret)
      /\ MergedNearest(ret)
      /\ \A k \in DOMAIN ret.merges :
           LinkNum(ret.merges[k].a, ret.merges[k].b, ret.rows)
             <= ret.distance_threshold * LinkDen(ret.merges[k].a, ret.merges[k].b)
      /\ \A C, D \in FinalPart(ret) :
           C # D => LinkNum(C, D, ret.rows) > ret.distance_threshold * LinkDen(C, D)

\* C14 (amended): on two or more embedded chunks every two distinct final
\* clusters are at an average distance of at least distance_threshold, and
\* every merge joined the two clusters at the minimum average distance of its
\* step, a distance strictly below the threshold.
C14_StopsAtThreshold ==
    (IsCompute /\ Len(ret.rows) >= 2) =>
      /\ Chained(ret)
      /\ MergedNearest(ret)
      /\ \A k \in DOMAIN ret.merges :
           LinkNum(ret.merges[k].a, ret.merges[k].b, ret.rows)
             < ret.distance_threshold * LinkDen(ret.merges[k].a, ret.merges[k].b)
      /\ \A C, D \in FinalPart(ret) :
           C # D => LinkNum(C, D, ret.rows) >= ret.distance_threshold * LinkDen(C, D)

\* C14 witness: three chunks, one merge made, and the cluster it made is
\* exactly at the threshold from the third chunk
C14_Witness ==
    /\ IsCompute
    /\ Len(ret.rows) = 3
    /\ Len(ret.merges) = 1
    /\ \E C, D \in FinalPart(ret) :
         /\ C # D
         /\ LinkNum(C, D, ret.rows) = ret.distance_threshold * LinkDen(C, D)

\* the membership of a clustering: the sets of chunk ids that share a cluster
Membership(clusters) ==
    {{clusters[label][k] : k \in DOMAIN clusters[label]} : label \in DOMAIN clusters}

\* C15: two runs of compute_clusters on the same scope with the same threshold
\* and unchanged chunks give the same membership, whatever the numbering of
\* the clusters.
C15_SameMembership ==
    [][(/\ IsCompute
        /\ ret'.op = "compute_clusters"
        /\ ret'.call_id = ret.call_id
        /\ ret'.distance_threshold = ret.distance_threshold
        /\ call_chunks' = call_chunks)
       => Membership(ret'.clusters) = Membership(ret.clusters)]_vars

\* ----------------------------------------------------------------------
\* Properties of store_clusters' counts and of get_cluster_details
\* ----------------------------------------------------------------------
\* the chunks of a scope: those of the call, or all of them
ScopeChunks(call_id) ==
    {i \in DOMAIN call_chunks : call_id # None => call_chunks[i].call_id = call_id}

Eligible(call_id) ==
    {i \in ScopeChunks(call_id) : call_chunks[i].embedding # NoEmbedding}

\* C16: the clustering store_clusters gets from compute_clusters is a
\* partition of exactly the chunks of the scope that have an embedding: every
\* such chunk is in one cluster, once, and no other chunk is in any; one
\* eligible chunk gives one cluster of one member, none gives no cluster; and
\* store_clusters reports chunks_clustered = the number of eligible chunks and
\* clusters = the number of distinct cluster ids.
C16_PartitionOfEligible ==
    IsStore =>
      LET clusters == ret.computed
          eligible == Eligible(ret.call_id)
      IN /\ UNION Membership(clusters) = eligible
         /\ \A label \in DOMAIN clusters :
              /\ clusters[label] # <<>>
              /\ \A j, k \in DOMAIN clusters[label] :
                   clusters[label][j] = clusters[label][k] => j = k
         /\ \A l1, l2 \in DOMAIN clusters :
              l1 # l2 => Range(clusters[l1]) \cap Range(clusters[l2]) = {}
         /\ Cardinality(eligible) = 1 => Cardinality(DOMAIN clusters) = 1
         /\ eligible = {} => DOMAIN clusters = {}
         /\ ret.chunks_clustered = Cardinality(eligible)
         /\ ret.clusters = Cardinality({p[2] : p \in Assignments(clusters)})
         /\ ret.clusters
              = Cardinality({r.cluster_id : r \in {x \in chunk_clusters :
                                 x.chunk_id \in ScopeChunks(ret.call_id)}})

\* C16 witness: the call holds a chunk without an embedding and one with, another
\* call holds a chunk too, and store_clusters for the call reports one chunk in
\* one cluster
C16_Witness ==
    /\ IsStore
    /\ ret.call_id = 1
    /\ \E i \in ScopeChunks(1) : call_chunks[i].embedding = NoEmbedding
    /\ ScopeChunks(2) # {}
    /\ ret.chunks_clustered = 1
    /\ ret.clusters = 1

IsDetails == ret.op = "get_cluster_details"

\* the members of cluster cid among the chunks of the scope
MembersOf(cid, call_id) ==
    {r.chunk_id : r \in {x \in chunk_clusters :
                           /\ x.cluster_id = cid
                           /\ x.chunk_id \in ScopeChunks(call_id)}}

\* C17: get_cluster_details(scope, min_size) returns exactly the clusters of
\* the scope that have at least min_size members, each once, ordered by size
\* non-increasing; the size of each equals the number of members listed, the
\* members listed are the members of the cluster, and they are ordered by the
\* date of their call ascending, then by chunk_idx.
C17_DetailsExact ==
    IsDetails =>
      LET results == ret.results
          cids == {r.cluster_id : r \in {x \in chunk_clusters :
                                           x.chunk_id \in ScopeChunks(ret.call_id)}}
          expected == {cid \in cids :
                         Cardinality(MembersOf(cid, ret.call_id)) >= ret.min_size}
      IN /\ {results[i].cluster_id : i \in DOMAIN results} = expected
         /\ Len(results) = Cardinality(expected)
         /\ \A i, j \in DOMAIN results : i < j => results[i].size >= results[j].size
         /\ \A i \in DOMAIN results :
              LET chunks == results[i].chunks
              IN /\ results[i].size = Len(chunks)
                 /\ {chunks[k].id : k \in DOMAIN chunks}
                      = MembersOf(results[i].cluster_id, ret.call_id)
                 /\ Len(chunks) = Cardinality(MembersOf(results[i].cluster_id,
                                                        ret.call_id))
                 /\ \A k, l \in DOMAIN chunks :
                      k < l =>
                        LET a == call_chunks[chunks[k].id]
                            b == call_chunks[chunks[l].id]
                        IN \/ CallDate(a.call_id) < CallDate(b.call_id)
                           \/ /\ CallDate(a.call_id) = CallDate(b.call_id)
                              /\ a.chunk_idx <= b.chunk_idx

\* C17 witness: two clusters are listed, one of two chunks of two calls, then
\* one of a single chunk
C17_Witness ==
    /\ IsDetails
    /\ Len(ret.results) = 2
    /\ ret.results[1].size = 2
    /\ ret.results[2].size = 1
    /\ ret.results[1].chunks[1].call_id # ret.results[1].chunks[2].call_id

\* ----------------------------------------------------------------------
\* Properties of insert_chunks' numbering
\* ----------------------------------------------------------------------
\* C21: after any sequence of insert_chunks calls the chunk_idx values of the
\* chunks of one call are pairwise distinct and increase in insertion order
\* (the order of the ids).
C21_IdxIncreasing ==
    \A i, j \in DOMAIN call_chunks :
      (i < j /\ call_chunks[i].call_id = call_chunks[j].call_id)
        => call_chunks[i].chunk_idx < call_chunks[j].chunk_idx

\* ----------------------------------------------------------------------
\* chunking.py: chunk_transcript on one long turn, at full size (SpecTurn)
\* ----------------------------------------------------------------------
TurnLength == 1300            \* characters of the turn
DefaultMinChunk == 500        \* line 101: min_chunk_size
DefaultMaxChunk == 700        \* line 102: max_chunk_size

\* where a turn may be divided: a sentence ends before each cut, the cut is
\* the space between two sentences
Hundreds == {100 * k : k \in 1..12}
HalfCuts == {50, 650, 1250}
CutSets ==
    {(Hundreds \ removed) \cup added :
        removed \in {r \in SUBSET Hundreds : Cardinality(r) \in {0, 1, 2, 12}},
        added \in SUBSET HalfCuts}

\* the turn divided at the cuts: "Baa...a. Baa...a. ..."
TurnBody(cuts) ==
    [i \in 1..TurnLength |->
        IF i \in cuts THEN " "
        ELSE IF i = TurnLength \/ i + 1 \in cuts THEN "."
        ELSE IF i = 1 \/ i - 1 \in cuts THEN "B"
        ELSE "a"]

TurnText(cuts) == <<"[", "S", "]", " ">> \o TurnBody(cuts)

TurnInit ==
    /\ StoreIdle
    /\ ret = [op |-> "none"]
    /\ text \in {TurnText(cuts) : cuts \in CutSets}
    /\ view_rows = {}

DoChunkTurn == chunk_transcript(DefaultMinChunk, DefaultMaxChunk)

TurnNext == DoChunkTurn

SpecTurn == TurnInit /\ [][TurnNext]_vars

\* the content of the turns of the current text, speaker tags stripped
TurnContent == Join(TurnBodies(StripAll(SplitTurns(text))))

\* exactly two chunks, both within the bounds, together the whole turn
TwoChunksInBounds ==
    /\ Len(ret.chunks) = 2
    /\ \A i \in 1..2 :
         /\ ret.min_chunk_size <= Len(ret.chunks[i].text)
         /\ Len(ret.chunks[i].text) <= ret.max_chunk_size
    /\ Join(ChunkTexts(ret.chunks)) = TurnContent

RowDist(r, i, j) == CosDist(r.rows[i].embedding, r.rows[j].embedding)

SameCluster(r, i, j) == \E C \in FinalPart(r) : i \in C /\ j \in C

\* C23: any two chunks of the scope whose cosine distance is below
\* distance_threshold end up in the same cluster.
C23_CloseChunksGrouped ==
    IsCompute =>
      \A i, j \in DOMAIN ret.rows :
        RowDist(ret, i, j) < ret.distance_threshold => SameCluster(ret, i, j)

\* a threshold between the average and the largest distance of three chunks
\* at 0, 30 and 60 degrees (SpecLinkage)
LinkageThresholds == {4000}

LinkageCompute ==
    /\ \E call_id \in ClusterCalls, t \in LinkageThresholds :
          compute_clusters_call(call_id, t)
    /\ UNCHANGED <<tx, seen, text, view_rows>>

LinkageNext == ClusterInsertChunks \/ LinkageCompute

SpecLinkage == Init /\ [][LinkageNext]_vars

\* C24: no two chunks of the same cluster are farther apart than
\* distance_threshold.
C24_MaxDistanceWithin ==
    IsCompute =>
      \A i, j \in DOMAIN ret.rows :
        SameCluster(ret, i, j) => RowDist(ret, i, j) <= ret.distance_threshold

\* ----------------------------------------------------------------------
\* chunking.py: the speaker of a chunk of several speakers (SpecSpeaker)
\* ----------------------------------------------------------------------
MaxTurns == 3                           \* turns of a transcript
TurnSpeakers == {<<"A">>, <<"B">>, NoSpeaker}
SpeakerSizes == {<<2, 3>>, <<7, 8>>, <<500, 700>>}

\* one turn of one sentence, tagged with its speaker if it has one
OneTurn(speaker) ==
    IF speaker = NoSpeaker THEN <<"B", "a", ".">>
    ELSE <<"[">> \o speaker \o <<"]", " ", "B", "a", ".">>

\* the turns separated by blank lines
RECURSIVE Transcript(_)
Transcript(speakers) ==
    IF speakers = <<>> THEN <<>>
    ELSE IF Len(speakers) = 1 THEN OneTurn(speakers[1])
    ELSE OneTurn(speakers[1]) \o <<NL, NL>> \o Transcript(Tail(speakers))

SpeakerInit ==
    /\ StoreIdle
    /\ ret = [op |-> "none"]
    /\ text \in {Transcript(speakers) :
                   speakers \in UNION {[1..n -> TurnSpeakers] : n \in 1..MaxTurns}}
    /\ view_rows = {}

DoChunkSpeakers == \E sizes \in SpeakerSizes : chunk_transcript(sizes[1], sizes[2])

SpeakerNext == DoChunkSpeakers

SpecSpeaker == SpeakerInit /\ [][SpeakerNext]_vars

\* the groups of segments the chunks of the current result were made of
ChunkGroups ==
    Loop([groups |-> <<>>, current |-> <<>>, size |-> 0],
         Segments(StripAll(SplitTurns(text))), ret.min_chunk_size, ret.max_chunk_size)

\* the speaker with the highest count in the group, the one seen first among
\* several, none when no sentence has a speaker
FirstSeenMost(group) ==
    LET Count(sp) == Cardinality({k \in DOMAIN group : group[k].speaker = sp})
        best == {k \in DOMAIN group :
                   /\ group[k].speaker # NoSpeaker
                   /\ \A o \in DOMAIN group :
                        group[o].speaker # NoSpeaker
                          => Count(group[o].speaker) <= Count(group[k].speaker)}
    IN IF best = {} THEN NoSpeaker ELSE group[Min(best)].speaker

\* C25: the speaker of a chunk is the speaker with the highest occurrence
\* count among the chunk's sentences, on a tie the one seen first in the
\* chunk, and none when no sentence has a speaker.
C25_FirstSeenOnTie ==
    IsChunk =>
      /\ Len(ret.chunks) = Len(ChunkGroups)
      /\ \A i \in DOMAIN ret.chunks :
           ret.chunks[i].speaker = FirstSeenMost(ChunkGroups[i])

\* ----------------------------------------------------------------------
\* chunk_by_sections on a text without sections
\* ----------------------------------------------------------------------
NoSectionStart(s) ==
    \A k \in DOMAIN SplitLines(s) : ~is_section_start(SplitLines(s)[k])

\* C26: when the input holds no section-start line at all, the result is the
\* list of the blank-line-delimited paragraphs whose stripped length is at
\* least min_chunk_size, and the whole input as a single chunk only when no
\* paragraph qualifies. Stated for the inputs that are not blank.
C26_ParagraphFallback ==
    (IsSections /\ NoSectionStart(text) /\ Strip(text) # <<>>) =>
      LET qualifying == Paragraphs(SplitTurns(text), ret.min_chunk_size)
      IN ret.chunks = IF qualifying # <<>> THEN qualifying ELSE <<Strip(text)>>

\* ----------------------------------------------------------------------
\* clustering.py: cluster_label (SpecLabel). The variable text holds the
\* member chunks, each the list of the whitespace-separated words of its text.
\* ----------------------------------------------------------------------
MaxLabelChunks == 2                     \* member chunks of a cluster
LabelTokens ==
    {<<"d", "a", "t", "a">>, <<"p", "l", "a", "n">>, <<"P", "l", "a", "n", ".">>,
     <<"w", "i", "t", "h">>, <<"c", "a", "t">>, <<"a", "b", "1", "2">>}
LabelTexts == {<<>>} \cup {<<a>> : a \in LabelTokens}
                \cup {<<a, b>> : a \in LabelTokens, b \in LabelTokens}
MaxWords == {0, 1, 2}
Unnamed == <<"u", "n", "n", "a", "m", "e", "d">>

\* str.lower on the letters of the tokens
ToLower(c) == IF c = "P" THEN "p" ELSE c
LowerWord(w) == [k \in DOMAIN w |-> ToLower(w[k])]

\* line 50: w.strip(".,;:!?...")
LabelPunct == {".", ","}
RECURSIVE StripPunct(_)
StripPunct(w) ==
    IF w = <<>> THEN w
    ELSE IF w[1] \in LabelPunct THEN StripPunct(Tail(w))
    ELSE IF w[Len(w)] \in LabelPunct THEN StripPunct(SubSeq(w, 1, Len(w) - 1))
    ELSE w

cleaned(w) == StripPunct(LowerWord(w))

\* lines 15-35: the stop words, of which the tokens use one
LabelStop == {<<"w", "i", "t", "h">>}
Letters == {"a", "b", "c", "d", "h", "i", "l", "n", "p", "t", "w"}
IsAlpha(w) == w # <<>> /\ \A k \in DOMAIN w : w[k] \in Letters

\* faulty variant: a word counts every time it occurs
Qualifies_Repeats(w, seen_words) == Len(w) > 3 /\ w \notin LabelStop /\ IsAlpha(w)

\* line 51
Qualifies(w, seen_words) ==
    Len(w) > 3 /\ w \notin LabelStop /\ IsAlpha(w) /\ w \notin seen_words

\* doc_freq[w] += 1 on a counter that keeps the order of first insertion
Increment(doc_freq, w) ==
    IF \E k \in DOMAIN doc_freq : doc_freq[k].word = w
    THEN [k \in DOMAIN doc_freq |->
            IF doc_freq[k].word = w
            THEN [doc_freq[k] EXCEPT !.count = @ + 1] ELSE doc_freq[k]]
    ELSE Append(doc_freq, [word |-> w, count |-> 1])

\* lines 49-53: the words of one chunk
RECURSIVE CountChunk(_, _, _)
CountChunk(doc_freq, words, seen_words) ==
    IF words = <<>> THEN doc_freq
    ELSE IF Qualifies(cleaned(Head(words)), seen_words)
    THEN CountChunk(Increment(doc_freq, cleaned(Head(words))), Tail(words),
                    seen_words \cup {cleaned(Head(words))})
    ELSE CountChunk(doc_freq, Tail(words), seen_words)

\* lines 46-53
RECURSIVE CountAll(_, _)
CountAll(doc_freq, chunks) ==
    IF chunks = <<>> THEN doc_freq
    ELSE CountAll(CountChunk(doc_freq, Head(chunks), {}), Tail(chunks))

\* Counter.most_common(n): the n highest counts, equal counts in the order of
\* first insertion
RECURSIVE most_common(_, _)
most_common(doc_freq, n) ==
    IF n <= 0 \/ doc_freq = <<>> THEN <<>>
    ELSE LET first == Min({k \in DOMAIN doc_freq :
                             \A o \in DOMAIN doc_freq :
                               doc_freq[o].count <= doc_freq[k].count})
         IN <<doc_freq[first].word>>
              \o most_common([k \in 1..Len(doc_freq) - 1 |->
                                IF k < first THEN doc_freq[k] ELSE doc_freq[k + 1]],
                             n - 1)

\* " / ".join(top)
RECURSIVE JoinSlash(_)
JoinSlash(list) ==
    IF list = <<>> THEN <<>>
    ELSE IF Len(list) = 1 THEN list[1]
    ELSE list[1] \o <<" ", "/", " ">> \o JoinSlash(Tail(list))

\* lines 38-56
cluster_label(max_words) ==
    /\ \E counted \in {CountAll(<<>>, text)} :
         \E top \in {most_common(counted, max_words)} :
           ret' = [op |-> "cluster_label", max_words |-> max_words,
                   doc_freq |-> counted, top |-> top,
                   label |-> IF top # <<>> THEN JoinSlash(top) ELSE Unnamed]
    /\ UNCHANGED <<call_chunks, chunk_clusters, tx, seen, text, view_rows>>

LabelInit ==
    /\ StoreIdle
    /\ ret = [op |-> "none"]
    /\ text \in UNION {[1..n -> LabelTexts] : n \in 0..MaxLabelChunks}
    /\ view_rows = {}

DoClusterLabel == \E max_words \in MaxWords : cluster_label(max_words)

LabelNext == DoClusterLabel

SpecLabel == LabelInit /\ [][LabelNext]_vars

IsLabel == ret.op = "cluster_label"

\* the words of the member chunks that qualify
QualifyingWords ==
    {w \in UNION {{cleaned(text[i][k]) : k \in DOMAIN text[i]} : i \in DOMAIN text} :
       Qualifies(w, {})}

\* the number of member chunks that hold the word
DocumentFrequency(w) ==
    Cardinality({i \in DOMAIN text : \E k \in DOMAIN text[i] : cleaned(text[i][k]) = w})

\* the label ranks by document frequency
RankedByDocumentFrequency ==
    /\ \A k \in DOMAIN ret.doc_freq :
         ret.doc_freq[k].count = DocumentFrequency(ret.doc_freq[k].word)
    /\ {ret.doc_freq[k].word : k \in DOMAIN ret.doc_freq} = QualifyingWords
    /\ Len(ret.top) <= ret.max_words
    /\ \A j, k \in DOMAIN ret.top :
         /\ ret.top[j] \in QualifyingWords
         /\ j < k => /\ ret.top[j] # ret.top[k]
                     /\ DocumentFrequency(ret.top[j]) >= DocumentFrequency(ret.top[k])
    /\ \A w \in QualifyingWords \ Range(ret.top) :
         /\ Len(ret.top) = ret.max_words
         /\ \A k \in DOMAIN ret.top : DocumentFrequency(w) <= DocumentFrequency(ret.top[k])
    /\ ret.label = IF ret.top # <<>> THEN JoinSlash(ret.top) ELSE Unnamed

\* C27 as stated: every qualifying word counts once per member chunk, the
\* label is made of at most max_words words with the highest document
\* frequency, and the label is 'unnamed' exactly when no qualifying word
\* exists.
C27_RankedOrUnnamed ==
    IsLabel =>
      /\ RankedByDocumentFrequency
      /\ (ret.label = Unnamed <=> QualifyingWords = {})

\* C27 amended: the same for max_words >= 1; with max_words = 0 the label is
\* 'unnamed' whatever the chunks hold.
C27_RankedOrUnnamedPositive ==
    (IsLabel /\ ret.max_words >= 1) =>
      /\ RankedByDocumentFrequency
      /\ (ret.label = Unnamed <=> QualifyingWords = {})

\* C27 witness: the first chunk holds one word twice, in two spellings, the
\* word is counted once for it, and the label names two words
C27_Witness ==
    /\ IsLabel
    /\ ret.max_words = 2
    /\ Len(text) = 2
    /\ Len(text[1]) = 2
    /\ text[1][1] # text[1][2]
    /\ cleaned(text[1][1]) = cleaned(text[1][2])
    /\ ret.doc_freq # <<>>
    /\ ret.doc_freq[1] = [word |-> cleaned(text[1][1]), count |-> 1]
    /\ Len(ret.top) = 2

\* ----------------------------------------------------------------------
\* Cluster ids of different runs
\* ----------------------------------------------------------------------
\* A run of scope s first deletes every row an earlier run of scope s wrote,
\* so among the rows of the table the scope field tells the runs apart.
\* C28: every chunk expand_by_cluster returns was placed in its cluster by the
\* same clustering run as a seed of that cluster: equal cluster ids of
\* different runs never make chunks members of one cluster.
C28_SameRunOnly ==
    ret.op = "expand_by_cluster" =>
      \A k \in DOMAIN ret.rows :
        \E x \in chunk_clusters :
          /\ x.chunk_id \in ret.chunk_ids
          /\ x.cluster_id = ret.rows[k].cluster_id
          /\ x.scope = ret.rows[k].scope

\* ----------------------------------------------------------------------
\* clustering.py: get_cluster_details beside a store_clusters run (SpecReader)
\* get_db() opens the connection with the default isolation (READ COMMITTED):
\* every statement of the reader sees what is committed when it starts. The
\* variable seen holds the reader between its first query and the later ones.
\* ----------------------------------------------------------------------
ReaderCalls == {1}
ReaderScopes == {None}
ReaderMinSizes == {1}

ReaderInsertChunks ==
    /\ \E call_id \in ReaderCalls, n \in BatchSizes :
          \E embs \in [1..n -> EmbSet] :
              /\ Len(call_chunks) + Len(embs) <= MaxChunks
              /\ insert_chunks(call_id, embs)
    /\ UNCHANGED <<tx, seen, text, view_rows>>

\* lines 146-179: a whole run, committed at line 177
ReaderStore ==
    /\ \E call_id \in ReaderScopes, t \in Thresholds : store_clusters(call_id, t)
    /\ UNCHANGED <<tx, seen, text, view_rows>>

\* lines 192-213: the first query
ReaderFirst ==
    /\ ~seen.active
    /\ \E call_id \in ReaderScopes, min_size \in ReaderMinSizes :
         \E cluster_rows \in KeyOrders({g \in Grouped(call_id) : Having(g.size, min_size)}) :
            /\ seen' = [active |-> TRUE, table |-> chunk_clusters, call_id |-> call_id,
                        min_size |-> min_size, cluster_rows |-> cluster_rows]
            /\ ret' = [op |-> "get_cluster_details_started", call_id |-> call_id]
    /\ UNCHANGED <<call_chunks, chunk_clusters, tx, text, view_rows>>

\* lines 215-233: the queries for the members, and the return
ReaderRest ==
    /\ seen.active
    /\ \E results \in Details(seen.cluster_rows, seen.call_id) :
         ret' = [op |-> "get_cluster_details", call_id |-> seen.call_id,
                 min_size |-> seen.min_size, results |-> results,
                 first |-> seen.table]
    /\ seen' = NoRead
    /\ UNCHANGED <<call_chunks, chunk_clusters, tx, text, view_rows>>

ReaderNext == ReaderInsertChunks \/ ReaderStore \/ ReaderFirst \/ ReaderRest

SpecReader == Init /\ [][ReaderNext]_vars

\* C29: get_cluster_details running beside a store_clusters recomputation
\* returns a result consistent with one single assignment state: the size of
\* every cluster it lists is the number of members it lists for it, also when
\* the commit lands between the reader's first and later queries.
C29_OneAssignmentState ==
    ret.op = "get_cluster_details" =>
      \A k \in DOMAIN ret.results :
        ret.results[k].size = Len(ret.results[k].chunks)

\* ----------------------------------------------------------------------
\* chunking.py: chunk_text, one round of its loop at a time (SpecLoop).
\* The variable tx holds the running call: its arguments, start, the chunks
\* so far and the number of rounds made.
\* ----------------------------------------------------------------------
MaxTextLen == 3                         \* characters of the text
\* rounds of the loop that are followed. A call whose start advances returns
\* within len(text) rounds, fewer than MaxIterations; a call still in the loop
\* after MaxIterations rounds is followed no further.
MaxIterations == 5
LoopChars == {"a", " "}
LoopTexts == UNION {[1..n -> LoopChars] : n \in 0..MaxTextLen}
ChunkSizes == {1, 2, 3}
Overlaps == {0, 1, 2}

\* text[a:b] with Python's rules for negative and oversized indices
PySlice(s, a, b) ==
    LET lo == IF a < 0 THEN (IF Len(s) + a < 0 THEN 0 ELSE Len(s) + a)
              ELSE (IF a > Len(s) THEN Len(s) ELSE a)
        hi == IF b < 0 THEN (IF Len(s) + b < 0 THEN 0 ELSE Len(s) + b)
              ELSE (IF b > Len(s) THEN Len(s) ELSE b)
    IN SubSeq(s, lo + 1, hi)

\* lines 7-10: the call, chunks = [] and start = 0
ChunkTextStart ==
    /\ tx.pc = "idle"
    /\ \E chunk_size \in ChunkSizes, overlap \in Overlaps :
         /\ tx' = [pc |-> "loop", chunk_size |-> chunk_size, overlap |-> overlap,
                   start |-> 0, chunks |-> <<>>, rounds |-> 0]
         /\ ret' = [op |-> "chunk_text_called", chunk_size |-> chunk_size,
                    overlap |-> overlap]
    /\ UNCHANGED <<call_chunks, chunk_clusters, seen, text, view_rows>>

\* lines 11-15: one round of the while loop
ChunkTextStep ==
    /\ tx.pc = "loop"
    /\ tx.start < Len(text)
    /\ tx.rounds < MaxIterations
    /\ \E chunk \in {PySlice(text, tx.start, tx.start + tx.chunk_size)} :
         tx' = [tx EXCEPT !.chunks = IF Strip(chunk) # <<>> THEN Append(@, chunk) ELSE @,
                          !.start = @ + tx.chunk_size - tx.overlap,
                          !.rounds = @ + 1]
    /\ ret' = [op |-> "chunk_text_running", rounds |-> tx.rounds + 1]
    /\ UNCHANGED <<call_chunks, chunk_clusters, seen, text, view_rows>>

\* line 16: the loop is left and the chunks are returned
ChunkTextReturn ==
    /\ tx.pc = "loop"
    /\ ~(tx.start < Len(text))
    /\ ret' = [op |-> "chunk_text", chunk_size |-> tx.chunk_size,
               overlap |-> tx.overlap, chunks |-> tx.chunks]
    /\ tx' = NoTx
    /\ UNCHANGED <<call_chunks, chunk_clusters, seen, text, view_rows>>

LoopInit ==
    /\ StoreIdle
    /\ ret = [op |-> "none"]
    /\ text \in LoopTexts
    /\ view_rows = {}

LoopNext == ChunkTextStart \/ ChunkTextStep \/ ChunkTextReturn

\* the call runs on one thread: while it can make a round or return, it does
SpecLoop ==
    LoopInit /\ [][LoopNext]_vars /\ WF_vars(ChunkTextStep) /\ WF_vars(ChunkTextReturn)

\* C30: chunk_text(text, chunk_size, overlap) terminates for every text, every
\* chunk_size >= 1 and every overlap >= 0, overlap >= chunk_size included.
C30_Terminates == (tx.pc = "loop") ~> (tx.pc = "idle")
====
